---- MODULE Spec2Model ----
(***************************************************************************)
(* Model of the Schrodinger solver core: the operator builders and the     *)
(* eigensolver wrapper of schrodinger_solver/core.py and the two solver    *)
(* facades Schrodinger1D (solver_1d.py) and Schrodinger2D (solver_2d.py).  *)
(*                                                                         *)
(* One facade instance is followed from its construction attempt through   *)
(* any sequence of solve / get_eigenfunction / get_probability_density /   *)
(* evolve_state calls.  The Laplacian builders and construct_hamiltonian   *)
(* can also be called on their own, and so can the two entry points, the   *)
(* launcher main.py and the web UI streamlit_app.py, up to the solver they *)
(* construct.  Every call leaves its result (return value or raised        *)
(* exception) in the variable outcome.                                     *)
(*                                                                         *)
(* Numbers handed in by the caller are Python numbers (as the entry points *)
(* main.py and streamlit_app.py pass them), so a division by zero raises   *)
(* ZeroDivisionError.  A grid step is kept as an exact fraction.           *)
(***************************************************************************)
EXTENDS Integers, Sequences, FiniteSets, TLC

VARIABLES
    constructed,    \* TRUE once __init__ has returned an instance
    dimension,      \* 1 for Schrodinger1D, 2 for Schrodinger2D
    nx,             \* self.n_points (1D) or self.nx (2D)
    ny,             \* self.ny (2D); 1 for a 1D facade
    dx,             \* self.dx, a fraction [num, den]
    dy,             \* self.dy (2D), a fraction [num, den]
    boundary,       \* self.boundary, the string as handed in
    hbar,           \* self.hbar
    mass,           \* self.mass
    potential_values, \* self.potential_values: one value per grid point (rows in 2D)
    laplacian,      \* self.laplacian, a sparse matrix
    hamiltonian,    \* self.hamiltonian, a sparse matrix
    eigenvalues,    \* self.eigenvalues: None or Some(array); Unbound before __init__
    eigenvectors,   \* self.eigenvectors: None or Some(columns); Unbound before __init__
    potential_calls, \* how many times the instance has invoked self.potential_func
    outcome         \* what the last call returned or raised

vars == <<constructed, dimension, nx, ny, dx, dy, boundary, hbar, mass,
          potential_values, laplacian, hamiltonian, eigenvalues, eigenvectors,
          potential_calls, outcome>>

facade == <<constructed, dimension, nx, ny, dx, dy, boundary, hbar, mass,
            potential_values, laplacian, hamiltonian>>

cache == <<eigenvalues, eigenvectors>>

(***************************************************************************)
(* Bounds of the model.                                                    *)
(***************************************************************************)
MaxPoints == 3      \* n_points of a 1D grid runs over -1..MaxPoints, AuxCap and AuxCap+1
MaxSide == 2        \* nx of a 2D grid runs over -1..MaxSide and BigSide
MaxStates == 1      \* largest small n_eigenstates tried besides N-1, N, N+1
MaxIndex == 3       \* largest eigenfunction index tried
MaxSteps == 2       \* largest n_steps tried by evolve_state

AuxCap == 20        \* the 20 of min(20, N) in core.time_evolution

(***************************************************************************)
(* Python values.                                                          *)
(***************************************************************************)
Unbound == [tag |-> "unbound", array |-> <<>>]     \* no instance, no attribute

None == [tag |-> "none", array |-> <<>>]

Some(a) == [tag |-> "array", array |-> a]

Min(a, b) == IF a <= b THEN a ELSE b

Frac(n, d) == [num |-> n, den |-> d]

NoFrac == Frac(0, 0)

\* the sign of a fraction with a non-zero denominator
FracSign(f) ==
    IF f.num = 0 THEN 0
    ELSE IF (f.num > 0) = (f.den > 0) THEN 1 ELSE -1

\* dx**2
FracSquare(f) == Frac(f.num * f.num, f.den * f.den)

(***************************************************************************)
(* Exceptions.  The code raises ValueError for every condition of its own; *)
(* the raise site tells the kind.                                          *)
(***************************************************************************)
NoError == "none"
InvalidArgument == "InvalidArgument"            \* ValueError on an argument
InvalidState == "InvalidState"                  \* ValueError, solve() not called
IndexOutOfRange == "IndexOutOfRange"            \* ValueError, bad index
ZeroDivisionError == "ZeroDivisionError"
DimensionMismatch == "DimensionMismatch"        \* ValueError, shapes not aligned
StateCountError == "StateCountError"            \* eigsh: k <= 0 or k >= N
NumericNonConvergence == "ArpackNoConvergence"
UnknownPotential == "UnknownPotential"          \* ValueError of get_potential_function
TypeError == "TypeError"                        \* a keyword the callee cannot bind

Raise(e) == [err |-> e]

Failed(r) == r.err # NoError

(***************************************************************************)
(* str.lower() on the boundary strings the model hands in.                 *)
(***************************************************************************)
Boundaries == {"dirichlet", "periodic", "Dirichlet", "invalid", ""}

Lower(s) == IF s = "Dirichlet" THEN "dirichlet" ELSE s

(***************************************************************************)
(* Sparse matrices.  A matrix is its shape (rows = columns) and the stored *)
(* entries, a function on the stored positions <<row, column>>, counted    *)
(* from 0 as in the code; a position that is not stored holds zero.  An    *)
(* entry of a Laplacian is the record [x, y] that stands for the number    *)
(* x/scale + y/scale_y, scale being dx**2 and scale_y being dy**2 (a 1D    *)
(* Laplacian has y = 0 everywhere).                                        *)
(***************************************************************************)
Index(n) == 0 .. (n - 1)

Abs(a) == IF a < 0 THEN -a ELSE a

Positions(n) == Index(n) \X Index(n)

Zero == [x |-> 0, y |-> 0]

Entry(matrix, i, j) ==
    IF <<i, j>> \in DOMAIN matrix.data THEN matrix.data[<<i, j>>] ELSE Zero

\* laplacian[i, j] = value on a sparse matrix
SetItem(data, p, value) ==
    [q \in DOMAIN data \cup {p} |-> IF q = p THEN value ELSE data[q]]

(***************************************************************************)
(* core.construct_laplacian_1d                                             *)
(***************************************************************************)
BoundaryAccepted(boundary_condition) ==
    Lower(boundary_condition) \in {"dirichlet", "periodic"}

\* lines 36-40: sparse.diags([-2*ones(n), ones(n-1), ones(n-1)], [0, 1, -1])
Diags(n) ==
    [p \in {q \in Positions(n) : Abs(q[1] - q[2]) <= 1} |->
        IF p[1] = p[2] THEN -2 ELSE 1]

\* lines 45-46: laplacian[0, n-1] = 1.0 and laplacian[n-1, 0] = 1.0
Corners(n, stencil) ==
    SetItem(SetItem(stencil, <<0, n - 1>>, 1), <<n - 1, 0>>, 1)

\* the stencil divided by dx**2 without the change of sign
Scaled_SignKept(stencil) ==
    [p \in DOMAIN stencil |-> [x |-> stencil[p], y |-> 0]]

\* line 49: -laplacian / (dx**2); the division is kept in the field scale
Scaled(stencil) ==
    [p \in DOMAIN stencil |-> [x |-> -stencil[p], y |-> 0]]

construct_laplacian_1d(n_points, step, boundary_condition) ==
    IF ~BoundaryAccepted(boundary_condition)
    THEN Raise(InvalidArgument)          \* line 33
    ELSE IF n_points - 1 < 0
    THEN Raise(InvalidArgument)          \* np.ones(n_points-1): negative dimensions
    ELSE IF FracSquare(step).num = 0
    THEN Raise(ZeroDivisionError)        \* -laplacian / (dx**2)
    ELSE [err |-> NoError,
          shape |-> n_points,
          periodic |-> Lower(boundary_condition) = "periodic",
          scale |-> FracSquare(step),
          scale_y |-> NoFrac,
          data |-> Scaled(IF Lower(boundary_condition) = "periodic"
                          THEN Corners(n_points, Diags(n_points))
                          ELSE Diags(n_points))]

(***************************************************************************)
(* core.construct_laplacian_2d                                             *)
(*                                                                         *)
(* sparse.kron(A, B) holds A[p, q] * B[r, s] at row p*rows(B) + r and      *)
(* column q*rows(B) + s.  One factor is an identity each time.             *)
(***************************************************************************)
\* sparse.kron(sparse.eye(n), lap_x): the blocks on the diagonal
KronEyeLeft(n, lap_x) ==
    [p \in {q \in Positions(n * lap_x.shape) :
                /\ q[1] \div lap_x.shape = q[2] \div lap_x.shape
                /\ <<q[1] % lap_x.shape, q[2] % lap_x.shape>> \in DOMAIN lap_x.data} |->
        [x |-> lap_x.data[<<p[1] % lap_x.shape, p[2] % lap_x.shape>>].x, y |-> 0]]

\* sparse.kron(lap_y, sparse.eye(n)): lap_y's entries spread over the blocks;
\* these are over dy**2
KronEyeRight(lap_y, n) ==
    [p \in {q \in Positions(lap_y.shape * n) :
                /\ q[1] % n = q[2] % n
                /\ <<q[1] \div n, q[2] \div n>> \in DOMAIN lap_y.data} |->
        [x |-> 0, y |-> lap_y.data[<<p[1] \div n, p[2] \div n>>].x]]

\* the sum of two sparse matrices of one shape
SparseSum(da, db) ==
    [p \in DOMAIN da \cup DOMAIN db |->
        [x |-> (IF p \in DOMAIN da THEN da[p].x ELSE 0)
               + (IF p \in DOMAIN db THEN db[p].x ELSE 0),
         y |-> (IF p \in DOMAIN da THEN da[p].y ELSE 0)
               + (IF p \in DOMAIN db THEN db[p].y ELSE 0)]]

\* the two factors of each product exchanged
KroneckerSum_Exchanged(lap_x, lap_y) ==
    SparseSum([p \in DOMAIN KronEyeRight(lap_x, lap_y.shape) |->
                   [x |-> KronEyeRight(lap_x, lap_y.shape)[p].y, y |-> 0]],
              [p \in DOMAIN KronEyeLeft(lap_x.shape, lap_y) |->
                   [x |-> 0, y |-> KronEyeLeft(lap_x.shape, lap_y)[p].x]])

\* line 88: sparse.kron(identity_y, laplacian_x) + sparse.kron(laplacian_y, identity_x)
KroneckerSum(lap_x, lap_y) ==
    SparseSum(KronEyeLeft(lap_y.shape, lap_x), KronEyeRight(lap_y, lap_x.shape))

\* lines 80-90, on the two 1D Laplacians
Combine(laplacian_x, laplacian_y) ==
    IF Failed(laplacian_x) THEN laplacian_x
    ELSE IF Failed(laplacian_y) THEN laplacian_y
    ELSE [err |-> NoError,
          shape |-> laplacian_x.shape * laplacian_y.shape,
          periodic |-> laplacian_x.periodic,
          scale |-> laplacian_x.scale,
          scale_y |-> laplacian_y.scale,
          data |-> KroneckerSum(laplacian_x, laplacian_y)]

construct_laplacian_2d(n_x, n_y, step_x, step_y, boundary_condition) ==
    IF ~BoundaryAccepted(boundary_condition)
    THEN Raise(InvalidArgument)          \* line 74
    ELSE Combine(construct_laplacian_1d(n_x, step_x, boundary_condition),
                 construct_laplacian_1d(n_y, step_y, boundary_condition))

(***************************************************************************)
(* core.construct_hamiltonian: kinetic + diag(potential_values).  An entry *)
(* of the Hamiltonian is the record [x, y, v] that stands for              *)
(* kin*(x/scale + y/scale_y) + v with kin = 0.5*hbar**2/mass, so x and y   *)
(* carry the sign of the factor -0.5.  sparse.diags(potential_values) is   *)
(* square of the vector's length and stores every diagonal position.       *)
(***************************************************************************)
Diagonal(n) == {<<i, i>> : i \in Index(n)}

\* line 114: -0.5 * (hbar**2 / mass) * laplacian
Kinetic(lap, p) ==
    IF p \in DOMAIN lap.data THEN [x |-> -lap.data[p].x, y |-> -lap.data[p].y]
    ELSE Zero

\* the potential added along the first super-diagonal too
Potential_Smeared(values, p) ==
    IF p[1] = p[2] \/ p[2] = p[1] + 1 THEN values[p[1] + 1] ELSE 0

\* line 117: sparse.diags(potential_values)
Potential(values, p) ==
    IF p[1] = p[2] THEN values[p[1] + 1] ELSE 0

construct_hamiltonian(lap, values, h, m) ==
    IF m = 0
    THEN Raise(ZeroDivisionError)                 \* hbar**2 / mass, line 114
    ELSE IF Len(values) # lap.shape
    THEN Raise(DimensionMismatch)                 \* kinetic + potential, line 120
    ELSE [err |-> NoError,
          shape |-> lap.shape,
          kin |-> Frac(h * h, 2 * m),
          scale |-> lap.scale,
          scale_y |-> lap.scale_y,
          data |-> [p \in DOMAIN lap.data \cup Diagonal(lap.shape) |->
                       [x |-> Kinetic(lap, p).x,
                        y |-> Kinetic(lap, p).y,
                        v |-> Potential(values, p)]]]

(***************************************************************************)
(* scipy.sparse.linalg.eigsh as core.solve_schrodinger calls it, on the    *)
(* sparse Hamiltonian.  It refuses k <= 0 and, for a sparse matrix,        *)
(* k >= N; it refuses an unknown `which`; otherwise the Lanczos iteration  *)
(* converges or raises ArpackNoConvergence.  What the library does on one  *)
(* call is the record lib: whether it converges, the order in which it     *)
(* hands the eigenpairs back and the sign it gives the eigenvectors.       *)
(* Eigenvalues are named by their rank in the spectrum (0 the lowest); a   *)
(* column is the eigenvector of one rank with the library's sign.          *)
(***************************************************************************)
Whichs == {"SM", "XX"}

LibBehaviours ==
    { [converges |-> FALSE, order |-> "asc", sign |-> 1],
      [converges |-> TRUE, order |-> "asc", sign |-> 1],
      [converges |-> TRUE, order |-> "desc", sign |-> -1] }

eigsh(matrix, k, which, lib) ==
    IF k <= 0 \/ k >= matrix.shape
    THEN Raise(StateCountError)
    ELSE IF which \notin {"SM", "SA"}
    THEN Raise(InvalidArgument)
    ELSE IF ~lib.converges
    THEN Raise(NumericNonConvergence)
    ELSE LET rank(j) == IF lib.order = "asc" THEN j - 1 ELSE k - j
         IN  [err |-> NoError,
              w |-> [j \in 1..k |-> rank(j)],
              v |-> [j \in 1..k |-> [level |-> rank(j), sign |-> lib.sign]]]

(***************************************************************************)
(* np.argsort: the positions of a in ascending order of value (stable).    *)
(***************************************************************************)
InversePermutation(place) ==
    [j \in DOMAIN place |-> CHOOSE i \in DOMAIN place : place[i] = j]

argsort(a) ==
    InversePermutation(
        [i \in DOMAIN a |->
            Cardinality({m \in DOMAIN a : a[m] < a[i] \/ (a[m] = a[i] /\ m < i)}) + 1])

(***************************************************************************)
(* core.solve_schrodinger: one eigsh call, then both arrays reordered by   *)
(* the argsort of the eigenvalues.  calls counts the eigsh invocations.    *)
(***************************************************************************)
\* the eigenvalues sorted, the columns left where eigsh put them
ReorderBy_ValuesOnly(raw, idx) ==
    [err |-> NoError,
     calls |-> 1,
     raw |-> [kind |-> "raw", w |-> raw.w, v |-> raw.v],
     eigenvalues |-> [j \in DOMAIN idx |-> raw.w[idx[j]]],
     eigenvectors |-> raw.v]

\* lines 152-154: eigenvalues[idx], eigenvectors[:, idx]; raw keeps what eigsh
\* handed back
ReorderBy(raw, idx) ==
    [err |-> NoError,
     calls |-> 1,
     raw |-> [kind |-> "raw", w |-> raw.w, v |-> raw.v],
     eigenvalues |-> [j \in DOMAIN idx |-> raw.w[idx[j]]],
     eigenvectors |-> [j \in DOMAIN idx |-> raw.v[idx[j]]]]

\* lines 151-156, on what eigsh returned or raised
SortEigenpairs(raw) ==
    IF Failed(raw)
    THEN [err |-> raw.err, calls |-> 1]
    ELSE ReorderBy(raw, argsort(raw.w))

\* the requested count clamped to what the partial solver accepts
solve_schrodinger_Clamped(matrix, n_eigenstates, which, lib) ==
    SortEigenpairs(eigsh(matrix, Min(n_eigenstates, matrix.shape - 1), which, lib))

\* a second eigsh attempt after a failure
solve_schrodinger_Retry(matrix, n_eigenstates, which, lib) ==
    IF Failed(eigsh(matrix, n_eigenstates, which, lib))
    THEN [err |-> eigsh(matrix, n_eigenstates, which, lib).err, calls |-> 2]
    ELSE SortEigenpairs(eigsh(matrix, n_eigenstates, which, lib))

solve_schrodinger(matrix, n_eigenstates, which, lib) ==
    SortEigenpairs(eigsh(matrix, n_eigenstates, which, lib))

(***************************************************************************)
(* What a call leaves behind: the operation, its arguments, the exception  *)
(* raised (NoError when it returned), the value returned, the number of    *)
(* eigsh invocations it made and, for solve(), what eigsh handed back.     *)
(***************************************************************************)
NoValue == [kind |-> "none"]

Returned(op, arg, value, calls) ==
    [op |-> op, arg |-> arg, err |-> NoError, value |-> value, eigsh_calls |-> calls,
     eigsh_output |-> NoValue]

Raised(op, arg, e, calls) ==
    [op |-> op, arg |-> arg, err |-> e, value |-> NoValue, eigsh_calls |-> calls,
     eigsh_output |-> NoValue]

(***************************************************************************)
(* The caller's potential function, called once on the grid.  "zero" and   *)
(* "ramp" return one value per grid point (the ramp grows with the point's *)
(* x index, and ten times as fast with its y index); "short" returns an    *)
(* array that is one entry (1D) or one row (2D) short.                     *)
(***************************************************************************)
Potentials == {"zero", "ramp", "short"}

potential_1d(name, n_points) ==
    [p \in 1 .. (IF name = "short" THEN n_points - 1 ELSE n_points) |->
        IF name = "ramp" THEN p - 1 ELSE 0]

potential_2d(name, n_x, n_y) ==
    [j \in 1 .. (IF name = "short" THEN n_y - 1 ELSE n_y) |->
        [i \in 1 .. n_x |-> IF name = "ramp" THEN (i - 1) + 10 * (j - 1) ELSE 0]]

\* the flattening in column-major (Fortran) order
Flatten_ColumnMajor(rows, n_x) ==
    [q \in 1 .. (Len(rows) * n_x) |->
        rows[((q - 1) % Len(rows)) + 1][((q - 1) \div Len(rows)) + 1]]

\* ndarray.flatten() of an array of rows of length n_x (C order)
Flatten(rows, n_x) ==
    [q \in 1 .. (Len(rows) * n_x) |-> rows[((q - 1) \div n_x) + 1][((q - 1) % n_x) + 1]]

(***************************************************************************)
(* Schrodinger1D.__init__                                                  *)
(***************************************************************************)
\* lines 63-70, on the potential values of line 60
Assemble1D(n_points, step, b, values, h, m, lap) ==
    IF Failed(lap) THEN Raise(lap.err)
    ELSE LET ham == construct_hamiltonian(lap, values, h, m)
         IN  IF Failed(ham) THEN Raise(ham.err)
             ELSE [err |-> NoError, nx |-> n_points, ny |-> 1,
                   dx |-> step, dy |-> NoFrac,
                   potential_values |-> values,
                   laplacian |-> lap,
                   hamiltonian |-> ham,
                   eigenvalues |-> None, eigenvectors |-> None]

Schrodinger1D_init(x_min, x_max, n_points, potential_func, h, m, b) ==
    IF n_points - 1 = 0
    THEN Raise(ZeroDivisionError)                 \* line 56
    ELSE IF n_points < 0
    THEN Raise(InvalidArgument)                   \* np.linspace, line 57
    ELSE Assemble1D(n_points, Frac(x_max - x_min, n_points - 1), b,
                    potential_1d(potential_func, n_points), h, m,
                    construct_laplacian_1d(n_points,
                                           Frac(x_max - x_min, n_points - 1), b))

(***************************************************************************)
(* Schrodinger2D.__init__                                                  *)
(***************************************************************************)
\* lines 72-82, on the potential values of line 69
Assemble2D(n_x, n_y, step_x, step_y, b, values, h, m, lap) ==
    IF Failed(lap) THEN Raise(lap.err)
    ELSE LET ham == construct_hamiltonian(lap, Flatten(values, n_x), h, m)
         IN  IF Failed(ham) THEN Raise(ham.err)
             ELSE [err |-> NoError, nx |-> n_x, ny |-> n_y,
                   dx |-> step_x, dy |-> step_y,
                   potential_values |-> values,
                   laplacian |-> lap,
                   hamiltonian |-> ham,
                   eigenvalues |-> None, eigenvectors |-> None]

Schrodinger2D_init(x_min, x_max, y_min, y_max, n_x, n_y, potential_func, h, m, b) ==
    IF n_x - 1 = 0 \/ n_y - 1 = 0
    THEN Raise(ZeroDivisionError)                 \* lines 61, 62
    ELSE IF n_x < 0 \/ n_y < 0
    THEN Raise(InvalidArgument)                   \* np.linspace, lines 64, 65
    ELSE Assemble2D(n_x, n_y, Frac(x_max - x_min, n_x - 1),
                    Frac(y_max - y_min, n_y - 1), b,
                    potential_2d(potential_func, n_x, n_y), h, m,
                    construct_laplacian_2d(n_x, n_y,
                                           Frac(x_max - x_min, n_x - 1),
                                           Frac(y_max - y_min, n_y - 1), b))

(***************************************************************************)
(* Inputs.                                                                 *)
(***************************************************************************)
Domains == {<<0, 1>>, <<1, 1>>, <<1, 0>>}       \* <<x_min, x_max>>

Domains2D == {<<0, 1, 0, 1>>, <<1, 1, 0, 1>>, <<0, 1, 1, 1>>, <<1, 0, 0, 2>>}

Steps == {Frac(1, 1), Frac(0, 1), Frac(-1, 1), Frac(1, 2)}

\* <<potential_func, hbar, mass>> as the constructors are handed them
Physics == {<<"zero", 1, 1>>, <<"ramp", 2, 3>>, <<"short", 1, 1>>}

PointCounts == (-1..MaxPoints) \cup {AuxCap, AuxCap + 1}

\* a number of columns and a number of rows, different from each other, of a
\* grid of more than AuxCap points
BigSide == (AuxCap \div 3) + 1

FewRows == (AuxCap \div BigSide) + 1

SideCounts == (-1..MaxSide) \cup {BigSide}

\* ny of a 2D grid
RowCounts == {1, 2, FewRows}

\* the boundary strings the constructors are handed
FacadeBoundaries == Boundaries \ {"Dirichlet"}

\* nothing has been called yet
Fresh == ~constructed /\ outcome.op = "start"

Init ==
    /\ constructed = FALSE
    /\ dimension = 0
    /\ nx = 0
    /\ ny = 0
    /\ dx = NoFrac
    /\ dy = NoFrac
    /\ boundary = ""
    /\ hbar = 0
    /\ mass = 0
    /\ potential_values = <<>>
    /\ laplacian = [shape |-> 0]
    /\ hamiltonian = [shape |-> 0]
    /\ eigenvalues = Unbound
    /\ eigenvectors = Unbound
    /\ potential_calls = 0
    /\ outcome = Returned("start", <<>>, NoValue, 0)

\* one that evaluates the potential again on every evolve_state
Invocations_PerEvolution(op) ==
    IF op \in {"Schrodinger1D", "Schrodinger2D", "evolve_state"} THEN 1 ELSE 0

\* How often a call of the facade invokes self.potential_func: once in
\* __init__ (1D line 60, 2D line 69), in no other method.
Invocations(op) ==
    IF op \in {"Schrodinger1D", "Schrodinger2D"} THEN 1 ELSE 0

Install(dim, b, h, m, r) ==
    /\ constructed' = TRUE
    /\ dimension' = dim
    /\ nx' = r.nx
    /\ ny' = r.ny
    /\ dx' = r.dx
    /\ dy' = r.dy
    /\ boundary' = b
    /\ hbar' = h
    /\ mass' = m
    /\ potential_values' = r.potential_values
    /\ laplacian' = r.laplacian
    /\ hamiltonian' = r.hamiltonian
    /\ eigenvalues' = r.eigenvalues
    /\ eigenvectors' = r.eigenvectors
    /\ potential_calls' = potential_calls + Invocations(IF dim = 1 THEN "Schrodinger1D"
                                                         ELSE "Schrodinger2D")

\* solver = Schrodinger1D(x_min, x_max, n_points, potential_func, hbar, mass, boundary=b)
Construct1D ==
    /\ Fresh
    /\ \E d \in Domains, n_points \in PointCounts, ph \in Physics,
          b \in FacadeBoundaries :
       \E r \in {Schrodinger1D_init(d[1], d[2], n_points, ph[1], ph[2], ph[3], b)} :
         LET arg == <<d[1], d[2], n_points, ph[1], ph[2], ph[3], b>>
         IN  IF Failed(r)
             THEN /\ outcome' = Raised("Schrodinger1D", arg, r.err, 0)
                  /\ UNCHANGED <<facade, cache, potential_calls>>
             ELSE /\ Install(1, b, ph[2], ph[3], r)
                  /\ outcome' = Returned("Schrodinger1D", arg, [kind |-> "instance"], 0)

\* solver = Schrodinger2D(x_min, x_max, y_min, y_max, nx, ny, potential_func, hbar, mass,
\*                        boundary=b)
Construct2D ==
    /\ Fresh
    /\ \E d \in Domains2D, n_x \in SideCounts, n_y \in RowCounts, ph \in Physics,
          b \in FacadeBoundaries :
       \E r \in {Schrodinger2D_init(d[1], d[2], d[3], d[4], n_x, n_y,
                                    ph[1], ph[2], ph[3], b)} :
         LET arg == <<d[1], d[2], d[3], d[4], n_x, n_y, ph[1], ph[2], ph[3], b>>
         IN  IF Failed(r)
             THEN /\ outcome' = Raised("Schrodinger2D", arg, r.err, 0)
                  /\ UNCHANGED <<facade, cache, potential_calls>>
             ELSE /\ Install(2, b, ph[2], ph[3], r)
                  /\ outcome' = Returned("Schrodinger2D", arg, [kind |-> "instance"], 0)

\* A direct call of construct_laplacian_1d.  The builders are pure and a
\* failed construction leaves nothing behind, so the model follows one such
\* call from the start.
Laplacian1D ==
    /\ Fresh
    /\ \E n \in SideCounts, step \in Steps, b \in Boundaries :
       \E r \in {construct_laplacian_1d(n, step, b)} :
         LET arg == <<n, step, b>>
         IN  /\ outcome' = IF Failed(r)
                           THEN Raised("construct_laplacian_1d", arg, r.err, 0)
                           ELSE Returned("construct_laplacian_1d", arg,
                                         [kind |-> "operator", operator |-> r], 0)
             /\ UNCHANGED <<facade, cache, potential_calls>>

\* A direct call of construct_laplacian_2d.
Laplacian2D ==
    /\ Fresh
    /\ \E n_x \in 1 .. (MaxSide + 1), n_y \in 0 .. MaxSide, step_x \in Steps,
          step_y \in Steps,
          b \in Boundaries :
       \E r \in {construct_laplacian_2d(n_x, n_y, step_x, step_y, b)} :
         LET arg == <<n_x, n_y, step_x, step_y, b>>
         IN  /\ outcome' = IF Failed(r)
                           THEN Raised("construct_laplacian_2d", arg, r.err, 0)
                           ELSE Returned("construct_laplacian_2d", arg,
                                         [kind |-> "operator", operator |-> r], 0)
             /\ UNCHANGED <<facade, cache, potential_calls>>

\* A direct call of construct_hamiltonian on a Laplacian a builder returned.
Operators ==
    { construct_laplacian_1d(2, Frac(1, 1), "dirichlet"),
      construct_laplacian_1d(3, Frac(1, 2), "periodic"),
      construct_laplacian_2d(3, 2, Frac(1, 1), Frac(1, 2), "dirichlet") }

\* vectors one short, of the right length and one long; all zero or a slope
PotentialVectors(n) ==
    { [p \in 1 .. len |-> slope * (p - 2)] : len \in {n - 1, n, n + 1}, slope \in {0, 1} }

\* <<hbar, mass>>
Units == {<<1, 1>>, <<2, 3>>, <<1, 0>>}

Hamiltonian ==
    /\ Fresh
    /\ \E lap \in Operators, u \in Units :
       \E values \in PotentialVectors(lap.shape) :
       \E r \in {construct_hamiltonian(lap, values, u[1], u[2])} :
         LET arg == <<lap, values, u[1], u[2]>>
         IN  /\ outcome' = IF Failed(r)
                           THEN Raised("construct_hamiltonian", arg, r.err, 0)
                           ELSE Returned("construct_hamiltonian", arg,
                                         [kind |-> "operator", operator |-> r], 0)
             /\ UNCHANGED <<facade, cache, potential_calls>>

(***************************************************************************)
(* Schrodinger1D.solve / Schrodinger2D.solve (the same code): the tuple    *)
(* assignment happens only when solve_schrodinger returns.                 *)
(***************************************************************************)
StateCounts == (0..MaxStates) \cup
               {hamiltonian.shape - 1, hamiltonian.shape, hamiltonian.shape + 1}

\* a solve that drops the cache before it calls the eigensolver
CacheAfterSolve_ClearedFirst(r, old) ==
    IF Failed(r) THEN <<None, None>>
    ELSE <<Some(r.eigenvalues), Some(r.eigenvectors)>>

\* the two attributes assigned one after the other, the second one never
CacheAfterSolve_ValuesOnly(r, old) ==
    IF Failed(r) THEN old
    ELSE <<Some(r.eigenvalues), old[2]>>

CacheAfterSolve(r, old) ==
    IF Failed(r) THEN old
    ELSE <<Some(r.eigenvalues), Some(r.eigenvectors)>>

Solve ==
    /\ constructed
    /\ \E n_eigenstates \in StateCounts, which \in Whichs, lib \in LibBehaviours :
       \E r \in {solve_schrodinger(hamiltonian, n_eigenstates, which, lib)} :
         LET arg == <<n_eigenstates, which>>
             new == CacheAfterSolve(r, cache)
         IN  /\ eigenvalues' = new[1]
             /\ eigenvectors' = new[2]
             /\ outcome' = IF Failed(r)
                           THEN Raised("solve", arg, r.err, r.calls)
                           ELSE [Returned("solve", arg,
                                          [kind |-> "eigenpairs",
                                           eigenvalues |-> new[1],
                                           eigenvectors |-> new[2]], r.calls)
                                 EXCEPT !.eigsh_output = r.raw]
             /\ potential_calls' = potential_calls + Invocations("solve")
             /\ UNCHANGED facade

(***************************************************************************)
(* The entries of an eigenvector.  The model does not compute them: Mode   *)
(* stands for the entry of the eigenvector of one level at flat grid index *)
(* p (from 1), and a column holds sign * Mode.  No Mode is the zero vector *)
(* on a grid of two or more points.                                        *)
(***************************************************************************)
Mode(level, p) == ((p + level) % 3) - 1

Amplitude(column, p) == column.sign * Mode(column.level, p)

\* np.abs(psi)**2 at flat index p
Density(column, p) == Amplitude(column, p) * Amplitude(column, p)

RECURSIVE SumDensity(_, _)
\* np.sum(np.abs(psi)**2) over the flat indices 1..p
SumDensity(column, p) ==
    IF p <= 0 THEN 0 ELSE Density(column, p) + SumDensity(column, p - 1)

\* np.trapz(f, x=self.x_grid) on the n points of np.linspace, spaced step apart:
\* the sum of step * (f[p] + f[p+1]) / 2
Trapz(column, n, step) ==
    Frac(step.num * (2 * SumDensity(column, n) - Density(column, 1) - Density(column, n)),
         2 * step.den)

\* np.sum(f) * self.dx * self.dy
SumTimesCell(column, n, step_x, step_y) ==
    Frac(SumDensity(column, n) * step_x.num * step_y.num, step_x.den * step_y.den)

\* the facade's grid as the queries read it
Grid == [dimension |-> dimension, nx |-> nx, ny |-> ny, dx |-> dx, dy |-> dy]

\* 1D line 122, 2D line 137: the number under the square root
NormSquared(column, grid) ==
    IF grid.dimension = 1
    THEN Trapz(column, grid.nx, grid.dx)
    ELSE SumTimesCell(column, grid.nx * grid.ny, grid.dx, grid.dy)

\* the column returned as it is
Normalized_Raw(column, grid) ==
    [kind |-> "eigenfunction", level |-> column.level, sign |-> column.sign,
     shape |-> IF grid.dimension = 1 THEN <<grid.nx>> ELSE <<grid.ny, grid.nx>>,
     divisor_squared |-> Frac(1, 1),
     finite |-> TRUE]

\* 1D lines 119-125, 2D lines 131-140: psi / np.sqrt(...).  The result is the
\* column over the square root of divisor_squared; np.sqrt of a negative
\* number is nan, and so is then every entry of the result.
Normalized(column, grid) ==
    [kind |-> "eigenfunction", level |-> column.level, sign |-> column.sign,
     shape |-> IF grid.dimension = 1 THEN <<grid.nx>> ELSE <<grid.ny, grid.nx>>,
     divisor_squared |-> NormSquared(column, grid),
     finite |-> FracSign(NormSquared(column, grid)) > 0]

(***************************************************************************)
(* get_eigenfunction: the state check, then the index check, then the      *)
(* column divided by its norm.                                             *)
(***************************************************************************)
Indices == -1..MaxIndex

\* the index check placed before the state check
get_eigenfunction_IndexFirst(vectors, n, grid) ==
    IF n < 0 \/ n >= Len(vectors.array)
    THEN Raise(IndexOutOfRange)
    ELSE IF vectors = None
    THEN Raise(InvalidState)
    ELSE [err |-> NoError, value |-> Normalized(vectors.array[n + 1], grid)]

\* no lower bound on the index: a negative n counts from the end
get_eigenfunction_NegativeWraps(vectors, n, grid) ==
    IF vectors = None
    THEN Raise(InvalidState)
    ELSE IF n >= Len(vectors.array) \/ n < -Len(vectors.array)
    THEN Raise(IndexOutOfRange)
    ELSE [err |-> NoError,
          value |-> Normalized(vectors.array[IF n < 0 THEN Len(vectors.array) + n + 1
                                             ELSE n + 1], grid)]

get_eigenfunction(vectors, n, grid) ==
    IF vectors = None
    THEN Raise(InvalidState)                                \* 1D line 113, 2D line 125
    ELSE IF n < 0 \/ n >= Len(vectors.array)
    THEN Raise(IndexOutOfRange)                             \* 1D line 116, 2D line 128
    ELSE [err |-> NoError, value |-> Normalized(vectors.array[n + 1], grid)]

\* the division done in place on the view of the cached column (psi /= norm):
\* the cached column comes out rescaled
CacheAfterGet_InPlace(r, old) ==
    IF Failed(r) THEN old
    ELSE <<old[1],
           Some([j \in DOMAIN old[2].array |->
                    IF old[2].array[j].level = r.value.level
                    THEN [old[2].array[j] EXCEPT !.sign = 2 * @]
                    ELSE old[2].array[j]])>>

\* 1D lines 119-123, 2D lines 131-138: psi = self.eigenvectors[:, n] is a view
\* of the cache, psi = psi / norm binds psi to a new array; no attribute is
\* assigned.  r is what the query computed.
CacheAfterGet(r, old) == old

GetEigenfunction ==
    /\ constructed
    /\ \E n \in Indices :
       \E r \in {get_eigenfunction(eigenvectors, n, Grid)} :
             /\ outcome' = IF Failed(r)
                           THEN Raised("get_eigenfunction", <<n>>, r.err, 0)
                           ELSE Returned("get_eigenfunction", <<n>>, r.value, 0)
             /\ eigenvalues' = CacheAfterGet(r, cache)[1]
             /\ eigenvectors' = CacheAfterGet(r, cache)[2]
             /\ potential_calls' = potential_calls + Invocations("get_eigenfunction")
             /\ UNCHANGED facade

(***************************************************************************)
(* get_probability_density: |get_eigenfunction(n)|^2                       *)
(***************************************************************************)
AbsSquared(psi) == [psi EXCEPT !.kind = "density", !.sign = psi.sign * psi.sign]

get_probability_density(vectors, n, grid) ==
    LET r == get_eigenfunction(vectors, n, grid)
    IN  IF Failed(r) THEN r
        ELSE [err |-> NoError, value |-> AbsSquared(r.value)]

GetProbabilityDensity ==
    /\ constructed
    /\ \E n \in Indices :
       \E r \in {get_probability_density(eigenvectors, n, Grid)} :
             /\ outcome' = IF Failed(r)
                           THEN Raised("get_probability_density", <<n>>, r.err, 0)
                           ELSE Returned("get_probability_density", <<n>>, r.value, 0)
             /\ eigenvalues' = CacheAfterGet(r, cache)[1]
             /\ eigenvectors' = CacheAfterGet(r, cache)[2]
             /\ potential_calls' = potential_calls + Invocations("get_probability_density")
             /\ UNCHANGED facade

(***************************************************************************)
(* core.time_evolution: an eigensolve of its own for min(20, N) states,    *)
(* the projection of the initial state on those eigenvectors, one state    *)
(* per time point.  It is handed the Hamiltonian, never the facade.        *)
(***************************************************************************)
\* a smaller fixed cap
AuxStates_Six(N) == Min(6, N)

AuxStates(N) == Min(AuxCap, N)

(***************************************************************************)
(* A state handed to or returned by the evolution is its array shape and   *)
(* its expansion in the eigenvectors of the Hamiltonian (an orthonormal    *)
(* basis of the N-dimensional space): the set of its terms                 *)
(* [level, amp, angle], one per level with a non-zero amplitude, standing  *)
(* for the sum of amp * exp(-i*angle) * eigenvector(level).  Two states of *)
(* one shape are equal exactly when their sets of terms are equal.         *)
(***************************************************************************)
Term(level, amp, angle) == [level |-> level, amp |-> amp, angle |-> angle]

NoAngle == Frac(0, 1)

RECURSIVE Size(_)
\* ndarray.size: the product of the shape
Size(shape) == IF shape = <<>> THEN 1 ELSE Head(shape) * Size(Tail(shape))

\* the inner product of the eigenvector of a level with the state
Component(state, level) ==
    IF \E t \in state.terms : t.level = level
    THEN (CHOOSE t \in state.terms : t.level = level).amp
    ELSE 0

\* the projection taken without the sign of the column
Coefficients_Unsigned(columns, state) ==
    [j \in DOMAIN columns |-> Component(state, columns[j].level)]

\* the projection of the initial state brought to unit length first (for a
\* state on one level: the amplitude replaced by its sign)
Coefficients_UnitLength(columns, state) ==
    [j \in DOMAIN columns |->
        columns[j].sign * (IF Component(state, columns[j].level) > 0 THEN 1
                           ELSE IF Component(state, columns[j].level) < 0 THEN -1
                           ELSE 0)]

\* line 183: np.dot(eigenvectors.T.conj(), initial_state)
Coefficients(columns, state) ==
    [j \in DOMAIN columns |-> columns[j].sign * Component(state, columns[j].level)]

\* the angle E*t/hbar of the factor np.exp(-1j * E * t / hbar)
Angle(energy, t, h) ==
    IF energy * t.num = 0 THEN NoAngle ELSE Frac(energy * t.num, t.den * h)

\* a factor that damps instead of turning the phase
Evolved_Damped(coefficients, energies, t, h) ==
    [j \in DOMAIN coefficients |->
        [amp |-> IF energies[j] * t.num = 0 THEN coefficients[j] ELSE 0,
         angle |-> Angle(energies[j], t, h)]]

\* line 191: coefficients * np.exp(-1j * eigenvalues * t / hbar)
Evolved(coefficients, energies, t, h) ==
    [j \in DOMAIN coefficients |->
        [amp |-> coefficients[j], angle |-> Angle(energies[j], t, h)]]

\* line 193: np.dot(eigenvectors, time_evolved_coeffs)
Superpose(columns, coeffs) ==
    { Term(columns[j].level, columns[j].sign * coeffs[j].amp, coeffs[j].angle) :
        j \in {jj \in DOMAIN columns : coeffs[jj].amp # 0} }

\* lines 186-193: one row of len(initial_state) entries per time point
StatesAt(columns, energies, coefficients, time_points, h, len) ==
    [i \in DOMAIN time_points |->
        [shape |-> <<len>>,
         terms |-> Superpose(columns,
                             Evolved(coefficients, energies, time_points[i], h))]]

\* lines 182-195, on what the eigensolve of line 180 returned or raised
Propagate(initial_state, matrix, time_points, h, r) ==
    IF Failed(r) THEN [err |-> r.err, calls |-> r.calls]
    ELSE IF Size(initial_state.shape) # matrix.shape
    THEN [err |-> DimensionMismatch, calls |-> r.calls]       \* np.dot, line 183
    ELSE [err |-> NoError, calls |-> r.calls,
          eigenvalues |-> Some(r.eigenvalues),
          eigenvectors |-> Some(r.eigenvectors),
          states |-> StatesAt(r.eigenvectors, r.eigenvalues,
                              Coefficients(r.eigenvectors, initial_state),
                              time_points, h, Size(initial_state.shape))]

time_evolution(initial_state, matrix, time_points, h, lib) ==
    Propagate(initial_state, matrix, time_points, h,
              solve_schrodinger(matrix, AuxStates(matrix.shape), "SM", lib))

(***************************************************************************)
(* evolve_state: np.linspace(0, t_max, n_steps), then time_evolution on    *)
(* self.hamiltonian with self.hbar (the 2D facade flattens the state       *)
(* before and reshapes the states after).  It returns (times, states).     *)
(***************************************************************************)
StepCounts == -1..MaxSteps

TMaxs == {1, 3}

\* <<t_max, n_steps>> as evolve_state is handed them: every step count with
\* t_max = 1, the largest step count with every t_max
Schedules ==
    {<<1, n_steps>> : n_steps \in StepCounts} \cup {<<t_max, MaxSteps>> : t_max \in TMaxs}

\* the spacing of np.linspace(..., endpoint=False)
linspace_HalfOpen(t_max, n_steps) ==
    [i \in 1 .. n_steps |-> Frac((i - 1) * t_max, n_steps)]

\* np.linspace(0, t_max, n_steps)
linspace(t_max, n_steps) ==
    [i \in 1 .. n_steps |->
        IF n_steps = 1 THEN NoAngle ELSE Frac((i - 1) * t_max, n_steps - 1)]

\* the shape of a state on the facade's grid
GridShape(grid) == IF grid.dimension = 1 THEN <<grid.nx>> ELSE <<grid.ny, grid.nx>>

\* ndarray.flatten()
Flat(state) == [state EXCEPT !.shape = <<Size(state.shape)>>]

\* 1D line 170; 2D lines 189-193
Shaped(r, times, grid) ==
    IF Failed(r) THEN r
    ELSE [err |-> NoError, calls |-> r.calls,
          value |-> [kind |-> "states",
                     times |-> times,
                     states |-> IF grid.dimension = 1 THEN r.states
                                ELSE [i \in DOMAIN r.states |->
                                         [r.states[i] EXCEPT !.shape = GridShape(grid)]],
                     eigenvalues |-> r.eigenvalues,
                     eigenvectors |-> r.eigenvectors]]

evolve_state(initial_state, t_max, n_steps, matrix, h, grid, lib) ==
    IF n_steps < 0
    THEN [err |-> InvalidArgument, calls |-> 0]              \* np.linspace
    ELSE Shaped(time_evolution(IF grid.dimension = 1 THEN initial_state
                               ELSE Flat(initial_state),
                               matrix, linspace(t_max, n_steps), h, lib),
                linspace(t_max, n_steps), grid)

\* The initial states tried: two of the grid's shape, one of them on the first
\* excited level with a part on the highest level; one that is an entry (1D) or a column (2D) short;
\* and, in 2D, one with the two axes exchanged.
InitialStates ==
    { [shape |-> GridShape(Grid), terms |-> {Term(0, 1, NoAngle)}],
      [shape |-> GridShape(Grid),
       terms |-> {Term(1, 3, NoAngle), Term(nx * ny - 1, 4, NoAngle)}],
      [shape |-> IF dimension = 1 THEN <<nx - 1>> ELSE <<ny, nx - 1>>,
       terms |-> {Term(0, 1, NoAngle)}],
      [shape |-> IF dimension = 1 THEN <<nx>> ELSE <<nx, ny>>,
       terms |-> {Term(0, 1, NoAngle)}] }

\* evolve_state assigns no attribute of the facade (1D lines 164-170, 2D
\* lines 179-193); r is what it computed.
CacheAfterEvolve_Stored(r, old) ==
    IF Failed(r) THEN old
    ELSE <<r.value.eigenvalues, r.value.eigenvectors>>

CacheAfterEvolve(r, old) == old

EvolveState ==
    /\ constructed
    /\ \E initial_state \in InitialStates, schedule \in Schedules, lib \in LibBehaviours :
       \E r \in {evolve_state(initial_state, schedule[1], schedule[2],
                               hamiltonian, hbar, Grid, lib)} :
         LET arg == <<initial_state, schedule[1], schedule[2]>>
         IN  /\ outcome' = IF Failed(r)
                           THEN Raised("evolve_state", arg, r.err, r.calls)
                           ELSE Returned("evolve_state", arg, r.value, r.calls)
             /\ eigenvalues' = CacheAfterEvolve(r, cache)[1]
             /\ eigenvectors' = CacheAfterEvolve(r, cache)[2]
             /\ potential_calls' = potential_calls + Invocations("evolve_state")
             /\ UNCHANGED facade

(***************************************************************************)
(* The entry points: the command-line launcher (main.py) and the web UI    *)
(* (streamlit_app.py).  Each run selects a dimension and a potential,      *)
(* builds a parameter dictionary and constructs one solver of its own with *)
(* Schrodinger1D(..., **potential_params) or Schrodinger2D(...,            *)
(* **potential_params).  A dictionary is its set of keys: the keys decide  *)
(* how Python binds the call.  The model follows a run up to that          *)
(* construction call and records what the constructor was handed; the      *)
(* grid, the operators and the later calls of the solver are the facade    *)
(* modelled above.                                                         *)
(***************************************************************************)
PointsCap == 100            \* the 100 of min(args.n_points, 100) in main.solve_2d

GridSliderMin == 50         \* the 2D grid sliders of the web UI run from 50 ...

GridSliderMax == 200        \* ... to 200

\* the keyword parameters of the potential functions (potentials.py)
PotentialParameters(func) ==
    CASE func = "infinite_well_1d" -> {"width", "offset", "depth", "wall_value"}
      [] func = "harmonic_oscillator_1d" -> {"k", "mass", "center"}
      [] func = "barrier_potential_1d" -> {"height", "width", "position"}
      [] func = "double_well_1d" -> {"height", "width", "barrier_width", "barrier_height"}
      [] func = "morse_potential_1d" -> {"D", "a", "r_e"}
      [] func = "infinite_well_2d" ->
             {"width_x", "width_y", "offset_x", "offset_y", "depth", "wall_value"}
      [] func = "harmonic_oscillator_2d" -> {"k_x", "k_y", "mass", "center_x", "center_y"}
      [] func = "circular_well_2d" ->
             {"radius", "center_x", "center_y", "depth", "wall_value"}
      [] func = "double_well_2d" ->
             {"height", "width", "barrier_width", "barrier_height", "direction"}

\* the named parameters of the constructors (solver_1d.py:25-26, solver_2d.py:27-28)
ConstructorParameters(dim) ==
    IF dim = 1
    THEN {"x_min", "x_max", "n_points", "potential_func", "hbar", "mass", "boundary"}
    ELSE {"x_min", "x_max", "y_min", "y_max", "nx", "ny", "potential_func",
          "hbar", "mass", "boundary"}

\* a constructor that hands every key of the dictionary on to the potential
BindCall_SpreadOnly(dim, explicit, spread, func) ==
    IF ~(spread \subseteq PotentialParameters(func))
    THEN Raise(TypeError)
    ELSE [err |-> NoError, captured |-> {}, potential_params |-> spread]

\* Python's binding of Schrodinger<dim>D(<explicit keywords>, **spread): a key
\* given twice is a TypeError; a key that names a parameter of the constructor
\* is bound to it; the other keys are **potential_params, which line 60 (2D:
\* line 69) hands to the potential function, a TypeError for a key that
\* function does not have.
BindCall(dim, explicit, spread, func) ==
    IF explicit \cap spread # {}
    THEN Raise(TypeError)
    ELSE IF ~((spread \ ConstructorParameters(dim)) \subseteq PotentialParameters(func))
    THEN Raise(TypeError)
    ELSE [err |-> NoError,
          captured |-> spread \cap ConstructorParameters(dim),
          potential_params |-> spread \ ConstructorParameters(dim)]

\* what a run leaves behind when the constructor returned
Solver(dim, n_x, n_y, func, call) ==
    [kind |-> "solver", dimension |-> dim, nx |-> n_x, ny |-> n_y,
     potential_func |-> func, captured |-> call.captured,
     potential_params |-> call.potential_params]

(***************************************************************************)
(* main.py                                                                 *)
(***************************************************************************)
\* --dimension and --potential as argparse accepts them (lines 21-27)
CliDimensions == {1, 2}

CliPotentials == {"infinite_well", "harmonic", "barrier", "double_well", "morse", "circular"}

\* --n_points: any integer; the default 1000 and values around the cap
CliPointCounts == {2, PointsCap, PointsCap + 1, 1000}

\* lines 56-81
get_potential_function(potential_name, dim) ==
    IF dim = 1
    THEN CASE potential_name = "infinite_well" -> [err |-> NoError, func |-> "infinite_well_1d"]
           [] potential_name = "harmonic" -> [err |-> NoError, func |-> "harmonic_oscillator_1d"]
           [] potential_name = "barrier" -> [err |-> NoError, func |-> "barrier_potential_1d"]
           [] potential_name = "double_well" -> [err |-> NoError, func |-> "double_well_1d"]
           [] potential_name = "morse" -> [err |-> NoError, func |-> "morse_potential_1d"]
           [] OTHER -> Raise(UnknownPotential)
    ELSE CASE potential_name = "infinite_well" -> [err |-> NoError, func |-> "infinite_well_2d"]
           [] potential_name = "harmonic" -> [err |-> NoError, func |-> "harmonic_oscillator_2d"]
           [] potential_name = "circular" -> [err |-> NoError, func |-> "circular_well_2d"]
           [] potential_name = "double_well" -> [err |-> NoError, func |-> "double_well_2d"]
           [] OTHER -> Raise(UnknownPotential)

\* lines 84-99: the keys of the dictionary, the same for both dimensions
get_potential_params(potential_name) ==
    CASE potential_name = "infinite_well" -> {"width", "offset", "depth", "wall_value"}
      [] potential_name = "harmonic" -> {"k", "mass", "center"}
      [] potential_name = "barrier" -> {"height", "width", "position"}
      [] potential_name = "double_well" ->
             {"height", "width", "barrier_width", "barrier_height"}
      [] potential_name = "morse" -> {"D", "a", "r_e"}
      [] potential_name = "circular" ->
             {"radius", "center_x", "center_y", "depth", "wall_value"}
      [] OTHER -> {}

\* a launcher that hands --n_points on as it is
PointsPerDimension_Uncapped(n_points) == n_points

\* line 169
PointsPerDimension(n_points) == Min(n_points, PointsCap)

\* lines 116-126, up to the return of the constructor
solve_1d(potential_name, n_points) ==
    LET f == get_potential_function(potential_name, 1)
    IN  IF Failed(f) THEN Raise(f.err)
        ELSE LET call == BindCall(1, {"x_min", "x_max", "n_points", "potential_func"},
                                  get_potential_params(potential_name), f.func)
             IN  IF Failed(call) THEN Raise(call.err)
                 ELSE [err |-> NoError,
                       value |-> Solver(1, n_points, 1, f.func, call)]

\* lines 165-181, up to the return of the constructor
solve_2d(potential_name, n_points) ==
    LET f == get_potential_function(potential_name, 2)
    IN  IF Failed(f) THEN Raise(f.err)
        ELSE LET call == BindCall(2, {"x_min", "x_max", "y_min", "y_max", "nx", "ny",
                                      "potential_func"},
                                  get_potential_params(potential_name), f.func)
             IN  IF Failed(call) THEN Raise(call.err)
                 ELSE [err |-> NoError,
                       value |-> Solver(2, PointsPerDimension(n_points),
                                        PointsPerDimension(n_points), f.func, call)]

\* lines 223-230
main(dim, potential_name, n_points) ==
    IF dim = 1 THEN solve_1d(potential_name, n_points)
    ELSE solve_2d(potential_name, n_points)

\* python -m schrodinger_solver.main --dimension d --potential p --n_points n
CommandLine ==
    /\ Fresh
    /\ \E dim \in CliDimensions, potential_name \in CliPotentials,
          n_points \in CliPointCounts :
       \E r \in {main(dim, potential_name, n_points)} :
         LET arg == <<dim, potential_name, n_points, n_points>>
         IN  /\ outcome' = IF Failed(r) THEN Raised("main", arg, r.err, 0)
                           ELSE Returned("main", arg, r.value, 0)
             /\ UNCHANGED <<facade, cache, potential_calls>>

(***************************************************************************)
(* streamlit_app.py                                                        *)
(***************************************************************************)
\* line 781
UiDimensions == {1, 2}

\* lines 802-829: the potentials the selectbox offers for a dimension
potential_options(dim) ==
    IF dim = 1
    THEN {"Infinite Well", "Harmonic Oscillator", "Barrier", "Double Well", "Morse"}
    ELSE {"Infinite Well", "Harmonic Oscillator", "Circular Well", "Double Well"}

\* lines 810-829
potential_functions(dim, potential_name) ==
    IF dim = 1
    THEN CASE potential_name = "Infinite Well" -> "infinite_well_1d"
           [] potential_name = "Harmonic Oscillator" -> "harmonic_oscillator_1d"
           [] potential_name = "Barrier" -> "barrier_potential_1d"
           [] potential_name = "Double Well" -> "double_well_1d"
           [] potential_name = "Morse" -> "morse_potential_1d"
    ELSE CASE potential_name = "Infinite Well" -> "infinite_well_2d"
           [] potential_name = "Harmonic Oscillator" -> "harmonic_oscillator_2d"
           [] potential_name = "Circular Well" -> "circular_well_2d"
           [] potential_name = "Double Well" -> "double_well_2d"

\* lines 884-969: the keys of potential_params
ui_potential_params(dim, potential_name) ==
    CASE potential_name = "Infinite Well" ->
             IF dim = 1 THEN {"width", "offset", "depth", "wall_value"}
             ELSE {"width_x", "width_y", "offset_x", "offset_y", "depth", "wall_value"}
      [] potential_name = "Harmonic Oscillator" ->
             IF dim = 1 THEN {"k", "center", "mass"}
             ELSE {"k_x", "k_y", "center_x", "center_y", "mass"}
      [] potential_name = "Barrier" -> {"height", "width", "position"}
      [] potential_name = "Double Well" ->
             IF dim = 1 THEN {"height", "width", "barrier_width", "barrier_height"}
             ELSE {"height", "width", "barrier_width", "barrier_height", "direction"}
      [] potential_name = "Morse" -> {"D", "a", "r_e"}
      [] potential_name = "Circular Well" ->
             {"radius", "center_x", "center_y", "depth", "wall_value"}

\* lines 851-859: the grid sliders, <<nx, ny>> (ny = 1 for a 1D grid)
UiGrids(dim) ==
    IF dim = 1 THEN {<<100, 1>>, <<1000, 1>>, <<2000, 1>>}
    ELSE {<<GridSliderMin, GridSliderMin>>, <<100, 100>>,
          <<GridSliderMax, GridSliderMax>>, <<GridSliderMin, GridSliderMax>>}

\* lines 1100-1111 and 1154-1168, up to the return of the constructor
streamlit_app(dim, potential_name, n_x, n_y) ==
    LET call == BindCall(dim, ConstructorParameters(dim),
                         ui_potential_params(dim, potential_name),
                         potential_functions(dim, potential_name))
    IN  IF Failed(call) THEN Raise(call.err)
        ELSE [err |-> NoError,
              value |-> Solver(dim, n_x, n_y,
                               potential_functions(dim, potential_name), call)]

\* one run of the streamlit script with the sidebar selections made
WebUI ==
    /\ Fresh
    /\ \E dim \in UiDimensions :
       \E potential_name \in potential_options(dim), g \in UiGrids(dim) :
       \E r \in {streamlit_app(dim, potential_name, g[1], g[2])} :
         LET arg == <<dim, potential_name, g[1], g[2]>>
         IN  /\ outcome' = IF Failed(r) THEN Raised("streamlit_app", arg, r.err, 0)
                           ELSE Returned("streamlit_app", arg, r.value, 0)
             /\ UNCHANGED <<facade, cache, potential_calls>>

Next ==
    \/ Laplacian1D
    \/ Laplacian2D
    \/ Hamiltonian
    \/ Construct1D
    \/ Construct2D
    \/ Solve
    \/ GetEigenfunction
    \/ GetProbabilityDensity
    \/ EvolveState
    \/ CommandLine
    \/ WebUI

Spec == Init /\ [][Next]_vars

(***************************************************************************)
(* Vocabulary of the properties.                                           *)
(***************************************************************************)
Present(c) == c.tag = "array"

Solved == Present(eigenvalues) /\ Present(eigenvectors)

GetOps == {"get_eigenfunction", "get_probability_density"}

FacadeOps == {"solve", "evolve_state"} \cup GetOps

ConstructOps == {"Schrodinger1D", "Schrodinger2D"}

BuilderOps == {"construct_laplacian_1d", "construct_laplacian_2d"}

Succeeded(o) == o.err = NoError

\* the boundary argument of a construction or builder call
BoundaryOf(o) == o.arg[Len(o.arg)]

(***************************************************************************)
(* C1.  The eigenpair cache is absent (None) when the constructor returns, *)
(* is present after every successful solve(), becomes present by nothing   *)
(* but a successful solve(), and once present stays present through every  *)
(* later solve (succeeding or failing), get_eigenfunction,                 *)
(* get_probability_density and evolve_state call.                          *)
(***************************************************************************)
C1_NoWayBackToConstructed ==
    [][ /\ (~constructed /\ constructed' => eigenvalues' = None /\ eigenvectors' = None)
        /\ (outcome'.op = "solve" /\ Succeeded(outcome') => Solved')
        /\ (constructed /\ ~Solved /\ Solved' =>
                outcome'.op = "solve" /\ Succeeded(outcome'))
        /\ (Solved => Solved') ]_vars

C1_Witness ==
    /\ Solved
    /\ outcome.op = "solve"
    /\ outcome.err = StateCountError

(***************************************************************************)
(* C2.  On a facade without cached eigenvectors, get_eigenfunction(n) and  *)
(* get_probability_density(n) raise the InvalidState error for every n,    *)
(* return nothing and change neither the facade nor the cache.             *)
(***************************************************************************)
C2_QueryBeforeSolveIsInvalidState ==
    [][ outcome'.op \in GetOps /\ ~Solved =>
            /\ outcome'.err = InvalidState
            /\ outcome'.value = NoValue
            /\ UNCHANGED <<facade, cache>> ]_vars

C2_Witness ==
    /\ constructed
    /\ ~Solved
    /\ outcome.op = "get_probability_density"
    /\ outcome.arg = <<0>>
    /\ outcome.err = InvalidState

(***************************************************************************)
(* C3.  The number of cached eigenvector columns is the n_eigenstates of   *)
(* the most recent successful solve() (a successful solve sets it, nothing *)
(* else changes it), and on a Solved facade get_eigenfunction(n) returns a *)
(* value exactly when 0 <= n < that number; for every other n, negative    *)
(* ones included, it raises IndexOutOfRange and returns nothing.           *)
(***************************************************************************)
C3_IndexRange ==
    [][ /\ (outcome'.op = "solve" /\ Succeeded(outcome') =>
                Len(eigenvectors'.array) = outcome'.arg[1])
        /\ (constructed /\ ~(outcome'.op = "solve" /\ Succeeded(outcome')) =>
                eigenvectors' = eigenvectors)
        /\ (outcome'.op = "get_eigenfunction" /\ Solved =>
                LET n == outcome'.arg[1]
                    k == Len(eigenvectors.array)
                IN  /\ Succeeded(outcome') <=> (0 <= n /\ n < k)
                    /\ Succeeded(outcome') => outcome'.value.kind = "eigenfunction"
                    /\ ~Succeeded(outcome') =>
                           outcome'.err = IndexOutOfRange /\ outcome'.value = NoValue) ]_vars

C3_Witness ==
    /\ Solved
    /\ outcome.op = "get_eigenfunction"
    /\ outcome.arg = <<-1>>
    /\ outcome.err = IndexOutOfRange

(***************************************************************************)
(* C4.  The claim as stated: every facade construction and every Laplacian *)
(* builder call whose boundary condition is neither dirichlet nor periodic *)
(* raises InvalidArgument, and no facade instance results.                 *)
(***************************************************************************)
C4_UnknownBoundaryIsInvalidArgument ==
    outcome.op \in ConstructOps \cup BuilderOps /\ ~BoundaryAccepted(BoundaryOf(outcome)) =>
        /\ outcome.err = InvalidArgument
        /\ ~constructed

\* What the code does guarantee for C4: an unknown boundary condition never
\* yields an instance or an operator; both builders raise InvalidArgument for
\* it whatever the other arguments; the constructors raise InvalidArgument
\* for it unless a point count is 1, where the division of lines 56 / 61-62
\* raises first.
C4_UnknownBoundaryNeverConstructs ==
    outcome.op \in ConstructOps \cup BuilderOps /\ ~BoundaryAccepted(BoundaryOf(outcome)) =>
        /\ ~Succeeded(outcome)
        /\ ~constructed
        /\ outcome.op \in BuilderOps => outcome.err = InvalidArgument
        /\ outcome.op = "Schrodinger1D" /\ outcome.arg[3] # 1 =>
               outcome.err = InvalidArgument
        /\ outcome.op = "Schrodinger2D" /\ outcome.arg[5] # 1 /\ outcome.arg[6] # 1 =>
               outcome.err = InvalidArgument

(***************************************************************************)
(* C5.  The claim as stated: construct_laplacian_1d raises InvalidArgument *)
(* for every call with n < 2 or dx <= 0, and a facade construction with a  *)
(* point count below 2 or a non-positive grid spacing raises               *)
(* InvalidArgument and yields no instance.                                 *)
(***************************************************************************)
C5_BadGridIsInvalidArgument ==
    /\ outcome.op = "construct_laplacian_1d"
         /\ (outcome.arg[1] < 2 \/ FracSign(outcome.arg[2]) <= 0) =>
           outcome.err = InvalidArgument
    /\ outcome.op = "Schrodinger1D"
         /\ (outcome.arg[3] < 2 \/ outcome.arg[2] - outcome.arg[1] <= 0) =>
           outcome.err = InvalidArgument /\ ~constructed
    /\ outcome.op = "Schrodinger2D"
         /\ (\/ outcome.arg[5] < 2
             \/ outcome.arg[6] < 2
             \/ outcome.arg[2] - outcome.arg[1] <= 0
             \/ outcome.arg[4] - outcome.arg[3] <= 0) =>
           outcome.err = InvalidArgument /\ ~constructed

(***************************************************************************)
(* C6.  The Hamiltonian dimension is the point count in 1D and nx*ny in    *)
(* 2D; solve(n_eigenstates) with n_eigenstates at or above it raises and   *)
(* returns nothing, and the cache never holds a full basis.                *)
(***************************************************************************)
C6_SolveNeverReturnsFullBasis ==
    /\ constructed => hamiltonian.shape = IF dimension = 1 THEN nx ELSE nx * ny
    /\ outcome.op = "solve" /\ outcome.arg[1] >= hamiltonian.shape =>
           ~Succeeded(outcome) /\ outcome.value = NoValue
    /\ Solved => Len(eigenvalues.array) < hamiltonian.shape

C6_Witness ==
    /\ dimension = 2
    /\ nx # ny
    /\ outcome.op = "solve"
    /\ outcome.arg[1] = nx * ny
    /\ outcome.err = StateCountError

(***************************************************************************)
(* C7.  A solve() call that fails has invoked the eigensolver exactly      *)
(* once, returns no eigenpairs, and leaves both cached arrays exactly as   *)
(* they were (None stays None, an earlier result stays in place).          *)
(***************************************************************************)
C7_FailedSolveKeepsCache ==
    [][ outcome'.op = "solve" /\ ~Succeeded(outcome') =>
            /\ outcome'.eigsh_calls = 1
            /\ outcome'.value = NoValue
            /\ cache' = cache ]_vars

C7_Witness ==
    /\ Solved
    /\ outcome.op = "solve"
    /\ outcome.err = NumericNonConvergence

(***************************************************************************)
(* C8.  evolve_state, called on a Constructed or on a Solved facade,       *)
(* succeeding or failing, leaves self.eigenvalues and self.eigenvectors    *)
(* exactly as they were.                                                   *)
(***************************************************************************)
C8_EvolveKeepsCache ==
    [][ outcome'.op = "evolve_state" => cache' = cache ]_vars

C8_Witness ==
    /\ constructed
    /\ eigenvalues = None
    /\ eigenvectors = None
    /\ outcome.op = "evolve_state"
    /\ Succeeded(outcome)

C10_AuxiliaryCountBelowDimension ==
    outcome.op = "evolve_state" /\ outcome.arg[3] >= 0 /\ hamiltonian.shape >= 2 =>
        /\ AuxStates(hamiltonian.shape) < hamiltonian.shape
        /\ outcome.err # StateCountError

(***************************************************************************)
(* Vocabulary of the operator properties.                                  *)
(***************************************************************************)
\* the fraction f is the integer k
FracIs(f, k) == f.den # 0 /\ f.num = k * f.den

\* an entry x/scale of a 1D Laplacian divided by -1/dx**2
Unscaled(matrix, step, i, j) ==
    Frac(-Entry(matrix, i, j).x * FracSquare(step).num * matrix.scale.den,
         FracSquare(step).den * matrix.scale.num)

RECURSIVE RowSumTo(_, _, _)
\* the sum of the numerators x of row i in the columns 0..j
RowSumTo(matrix, i, j) ==
    IF j < 0 THEN 0 ELSE Entry(matrix, i, j).x + RowSumTo(matrix, i, j - 1)

\* the sum of the un-scaled entries of row i (they share their denominator)
RowSum(matrix, step, i) ==
    Frac(-RowSumTo(matrix, i, matrix.shape - 1) * FracSquare(step).num * matrix.scale.den,
         FracSquare(step).den * matrix.scale.num)

Symmetric(matrix) ==
    \A p \in DOMAIN matrix.data :
        /\ <<p[2], p[1]>> \in DOMAIN matrix.data
        /\ matrix.data[<<p[2], p[1]>>] = matrix.data[p]

\* a direct call of a builder has just returned an operator
Built(op) == outcome.op = op /\ Succeeded(outcome)

\* a constructor has just returned an instance
Instantiated(op) == outcome.op = op /\ Succeeded(outcome) /\ constructed

TridiagonalMinusTwoOne(matrix, n, step) ==
    /\ matrix.shape = n
    /\ \A i, j \in Index(n) :
          FracIs(Unscaled(matrix, step, i, j),
                 IF i = j THEN -2 ELSE IF Abs(i - j) = 1 THEN 1 ELSE 0)
    /\ Symmetric(matrix)
    /\ \A i \in 1 .. (n - 2) : FracIs(RowSum(matrix, step, i), 0)

(***************************************************************************)
(* C13.  For every n >= 2 and dx > 0 the Dirichlet 1D Laplacian, un-scaled *)
(* by -1/dx^2, is the n-by-n tridiagonal matrix with -2 on the diagonal,   *)
(* +1 on the first super- and sub-diagonal and 0 elsewhere; it is          *)
(* symmetric and every interior row sums to 0.  Checked on every operator  *)
(* construct_laplacian_1d returns and on the laplacian of every 1D facade. *)
(***************************************************************************)
C13_DirichletIsTridiagonal ==
    /\ ( /\ Built("construct_laplacian_1d")
         /\ Lower(outcome.arg[3]) = "dirichlet"
         /\ outcome.arg[1] >= 2
         /\ FracSign(outcome.arg[2]) > 0
         => TridiagonalMinusTwoOne(outcome.value.operator, outcome.arg[1], outcome.arg[2]) )
    /\ ( /\ Instantiated("Schrodinger1D")
         /\ Lower(boundary) = "dirichlet"
         /\ nx >= 2
         /\ FracSign(dx) > 0
         => TridiagonalMinusTwoOne(laplacian, nx, dx) )

C13_Witness ==
    /\ outcome.op = "construct_laplacian_1d"
    /\ Succeeded(outcome)
    /\ outcome.arg = <<BigSide, Frac(1, 2), "Dirichlet">>
    /\ Entry(outcome.value.operator, 0, 1).x # 0

(***************************************************************************)
(* C14.  The claim as stated: for every periodic 1D Laplacian with n >= 2, *)
(* every row, the first and the last included, sums to 0 before scaling.   *)
(***************************************************************************)
C14_PeriodicRowsSumToZero ==
    /\ ( /\ Built("construct_laplacian_1d")
         /\ Lower(outcome.arg[3]) = "periodic"
         /\ outcome.arg[1] >= 2
         => \A i \in Index(outcome.arg[1]) :
                FracIs(RowSum(outcome.value.operator, outcome.arg[2], i), 0) )
    /\ ( /\ Instantiated("Schrodinger1D")
         /\ Lower(boundary) = "periodic"
         /\ nx >= 2
         /\ FracSign(dx) # 0
         => \A i \in Index(nx) : FracIs(RowSum(laplacian, dx, i), 0) )

\* What the code does guarantee for C14: from three points on every row of
\* the periodic stencil sums to zero.  With two points the corners (0, 1) and
\* (1, 0) are the off-diagonal positions themselves, the assignment of lines
\* 45-46 rewrites the 1 they hold, and both rows sum to -1.
C14_PeriodicRowsFromThreePoints ==
    /\ Built("construct_laplacian_1d")
    /\ Lower(outcome.arg[3]) = "periodic"
    => \A i \in Index(outcome.arg[1]) :
           FracIs(RowSum(outcome.value.operator, outcome.arg[2], i),
                  IF outcome.arg[1] >= 3 THEN 0
                  ELSE IF outcome.arg[1] = 2 THEN -1 ELSE 1)

(***************************************************************************)
(* C15.  For all nx, ny >= 2 the 2D Laplacian is the (nx*ny)-by-(nx*ny)    *)
(* Kronecker sum of the two scaled 1D Laplacians: its entry between the    *)
(* flat indices j*nx+i and j'*nx+i' is [j=j']*Lx[i,i'] + [i=i']*Ly[j,j'],  *)
(* the first term over dx^2 and the second over dy^2, and it is symmetric. *)
(* Checked on every operator construct_laplacian_2d returns and on the     *)
(* laplacian of every 2D facade.                                           *)
(***************************************************************************)
IsKroneckerSum(matrix, lap_x, lap_y) ==
    /\ matrix.shape = lap_x.shape * lap_y.shape
    /\ matrix.scale = lap_x.scale
    /\ matrix.scale_y = lap_y.scale
    /\ \A i, ii \in Index(lap_x.shape), j, jj \in Index(lap_y.shape) :
          Entry(matrix, j * lap_x.shape + i, jj * lap_x.shape + ii) =
              [x |-> IF j = jj THEN Entry(lap_x, i, ii).x ELSE 0,
               y |-> IF i = ii THEN Entry(lap_y, j, jj).x ELSE 0]
    /\ DOMAIN matrix.data \subseteq Positions(matrix.shape)
    /\ Symmetric(matrix)

C15_LaplacianIsKroneckerSum ==
    /\ ( /\ Built("construct_laplacian_2d")
         /\ outcome.arg[1] >= 2
         /\ outcome.arg[2] >= 2
         => IsKroneckerSum(outcome.value.operator,
                           construct_laplacian_1d(outcome.arg[1], outcome.arg[3],
                                                  outcome.arg[5]),
                           construct_laplacian_1d(outcome.arg[2], outcome.arg[4],
                                                  outcome.arg[5])) )
    /\ ( /\ Instantiated("Schrodinger2D")
         /\ nx >= 2
         /\ ny >= 2
         => IsKroneckerSum(laplacian,
                           construct_laplacian_1d(nx, dx, boundary),
                           construct_laplacian_1d(ny, dy, boundary)) )

C15_Witness ==
    /\ Instantiated("Schrodinger2D")
    /\ nx = BigSide
    /\ ny = 2
    /\ Lower(boundary) = "periodic"
    /\ Entry(laplacian, 0, nx - 1) = [x |-> -1, y |-> 0]
    /\ Entry(laplacian, 0, nx) = [x |-> 0, y |-> -1]

(***************************************************************************)
(* C16.  For any real potential vector the Hamiltonian equals              *)
(* -0.5*(hbar^2/mass)*Laplacian + diag(potential): it is symmetric, its    *)
(* off-diagonal entries do not depend on the potential (they are those of  *)
(* the Hamiltonian built with a zero potential), and each diagonal entry   *)
(* is the kinetic diagonal entry plus that grid point's potential value.   *)
(* Checked on every operator construct_hamiltonian returns and on the      *)
(* hamiltonian of every facade.                                            *)
(***************************************************************************)
HZero == [x |-> 0, y |-> 0, v |-> 0]

HEntry(matrix, p) == IF p \in DOMAIN matrix.data THEN matrix.data[p] ELSE HZero

IsHamiltonianOf(matrix, lap, values, h, m, free) ==
    /\ matrix.shape = lap.shape
    /\ matrix.scale = lap.scale
    /\ matrix.scale_y = lap.scale_y
    /\ matrix.kin = Frac(h * h, 2 * m)
    /\ \A p \in Positions(lap.shape) :
          /\ HEntry(matrix, p) = HEntry(matrix, <<p[2], p[1]>>)
          /\ p[1] # p[2] =>
                /\ HEntry(matrix, p) = HEntry(free, p)
                /\ HEntry(matrix, p) = [x |-> -Entry(lap, p[1], p[2]).x,
                                        y |-> -Entry(lap, p[1], p[2]).y,
                                        v |-> 0]
          /\ p[1] = p[2] =>
                HEntry(matrix, p) = [x |-> HEntry(free, p).x,
                                     y |-> HEntry(free, p).y,
                                     v |-> HEntry(free, p).v + values[p[1] + 1]]
    /\ DOMAIN matrix.data \subseteq Positions(lap.shape)

\* the potential vector that is zero at each of n grid points
ZeroPotential(n) == [p \in 1 .. n |-> 0]

C16_HamiltonianIsKineticPlusPotential ==
    /\ ( Built("construct_hamiltonian")
         => IsHamiltonianOf(outcome.value.operator, outcome.arg[1], outcome.arg[2],
                            outcome.arg[3], outcome.arg[4],
                            construct_hamiltonian(outcome.arg[1],
                                                  ZeroPotential(outcome.arg[1].shape),
                                                  outcome.arg[3], outcome.arg[4])) )
    /\ ( Instantiated("Schrodinger1D") \/ Instantiated("Schrodinger2D")
         => IsHamiltonianOf(hamiltonian, laplacian,
                            IF dimension = 1 THEN potential_values
                            ELSE Flatten(potential_values, nx),
                            hbar, mass,
                            construct_hamiltonian(laplacian, ZeroPotential(nx * ny),
                                                  hbar, mass)) )

C16_Witness ==
    /\ Built("construct_hamiltonian")
    /\ outcome.arg[1].shape = 6
    /\ outcome.arg[3] = 2
    /\ outcome.arg[2][6] = 4
    /\ HEntry(outcome.value.operator, <<5, 5>>) = [x |-> -2, y |-> -2, v |-> 4]
    /\ HEntry(outcome.value.operator, <<5, 4>>) = [x |-> 1, y |-> 0, v |-> 0]

(***************************************************************************)
(* C11.  The claim as stated: an array whose length differs from the       *)
(* operator dimension is rejected with DimensionMismatch and no partial    *)
(* result, both when construct_hamiltonian is handed a potential vector    *)
(* whose length is not the Laplacian's dimension and when evolve_state is  *)
(* handed an initial state whose size is not the Hamiltonian's dimension   *)
(* (the other arguments being acceptable: mass non-zero, n_steps >= 0).    *)
(***************************************************************************)
C11_WrongLengthIsDimensionMismatch ==
    /\ ( /\ outcome.op = "construct_hamiltonian"
         /\ Len(outcome.arg[2]) # outcome.arg[1].shape
         /\ outcome.arg[4] # 0
         => outcome.err = DimensionMismatch /\ outcome.value = NoValue )
    /\ ( /\ outcome.op = "evolve_state"
         /\ Size(outcome.arg[1].shape) # hamiltonian.shape
         /\ outcome.arg[3] >= 0
         => outcome.err = DimensionMismatch /\ outcome.value = NoValue )

\* What the code does guarantee for C11: neither call ever returns a value for
\* an array of the wrong length.  construct_hamiltonian raises
\* DimensionMismatch for it (line 120) unless mass is 0.  In evolve_state the
\* length is met only by the np.dot of line 183, after the eigensolve of line
\* 180: the call raises DimensionMismatch when that solve returns, and the
\* solve's own error otherwise, which is StateCountError on every Hamiltonian
\* of at most 20 points.
C11_WrongLengthNeverReturns ==
    /\ ( /\ outcome.op = "construct_hamiltonian"
         /\ Len(outcome.arg[2]) # outcome.arg[1].shape
         => /\ outcome.value = NoValue
            /\ outcome.err = IF outcome.arg[4] = 0 THEN ZeroDivisionError
                             ELSE DimensionMismatch )
    /\ ( /\ outcome.op = "evolve_state"
         /\ Size(outcome.arg[1].shape) # hamiltonian.shape
         /\ outcome.arg[3] >= 0
         => /\ outcome.value = NoValue
            /\ outcome.err \in {DimensionMismatch, StateCountError, NumericNonConvergence}
            /\ hamiltonian.shape <= AuxCap => outcome.err = StateCountError )

(***************************************************************************)
(* C12.  The claim as stated: evolve_state, handed an initial state of the *)
(* grid's shape, returns exactly one state per requested time point, in    *)
(* the order of the time points, each of the shape of the initial state    *)
(* (its length in 1D, (ny, nx) in 2D); and for no time points at all it    *)
(* returns an empty sequence rather than an error (an eigensolver that     *)
(* does not converge aside).                                               *)
(***************************************************************************)
\* the energy of a level, the eigenvalue eigsh reports for it
Energy(level) == level

OneStatePerTimePoint(o) ==
    /\ o.value.times = linspace(o.arg[2], o.arg[3])
    /\ Len(o.value.states) = o.arg[3]
    /\ \A i \in 1 .. o.arg[3] :
          /\ o.value.states[i].shape = o.arg[1].shape
          /\ \A t \in o.value.states[i].terms :
                t.angle = Angle(Energy(t.level), o.value.times[i], hbar)

C12_OneStatePerTimePoint ==
    /\ outcome.op = "evolve_state"
    /\ outcome.arg[1].shape = GridShape(Grid)
    /\ outcome.arg[3] >= 0
    => /\ Succeeded(outcome) => OneStatePerTimePoint(outcome)
       /\ outcome.arg[3] = 0 =>
             /\ outcome.err \in {NoError, NumericNonConvergence}
             /\ Succeeded(outcome) => outcome.value.states = <<>>

\* What the code does guarantee for C12: every evolve_state call that returns
\* returns one state per time point, in order and of the initial state's
\* shape, and none for n_steps = 0; it returns only on a Hamiltonian of more
\* than 20 points.
C12_ReturnedStatesMatchTimePoints ==
    /\ outcome.op = "evolve_state"
    /\ Succeeded(outcome)
    => /\ hamiltonian.shape > AuxCap
       /\ outcome.arg[1].shape = GridShape(Grid) => OneStatePerTimePoint(outcome)
       /\ outcome.arg[3] = 0 => outcome.value.states = <<>>

(***************************************************************************)
(* C17.  solve() returns the eigenvalues in non-decreasing order and       *)
(* applies the same permutation to the eigenvector columns: each returned  *)
(* column is still paired with the eigenvalue it was computed for, and the *)
(* returned pairs are the pairs eigsh handed back, each once.              *)
(***************************************************************************)
\* the <<eigenvalue, column>> pairs of two parallel arrays
Pairs(w, v) == { <<w[j], v[j]>> : j \in DOMAIN w }

C17_SolveSortsPairsTogether ==
    outcome.op = "solve" /\ Succeeded(outcome) =>
        LET w == outcome.value.eigenvalues.array
            v == outcome.value.eigenvectors.array
            raw == outcome.eigsh_output
        IN  /\ Len(w) = outcome.arg[1]
            /\ Len(v) = Len(w)
            /\ \A j \in 1 .. (Len(w) - 1) : w[j] <= w[j + 1]
            /\ \A j \in 1 .. Len(w) : w[j] = Energy(v[j].level)
            /\ Len(raw.w) = Len(w)
            /\ Pairs(w, v) = Pairs(raw.w, raw.v)
            /\ Cardinality(Pairs(w, v)) = Len(w)

C17_Witness ==
    /\ outcome.op = "solve"
    /\ Succeeded(outcome)
    /\ Len(outcome.eigsh_output.w) >= 3
    /\ outcome.eigsh_output.w[1] > outcome.eigsh_output.w[2]
    /\ outcome.value.eigenvectors.array[1].level = 0

(***************************************************************************)
(* C19.  The claim as stated: for every valid n, get_eigenfunction(n)      *)
(* returns the raw eigenvector divided by the square root of its           *)
(* numerically integrated squared modulus (trapezoidal rule over the grid  *)
(* in 1D, sum times dx*dy in 2D), and the integrated squared modulus of    *)
(* the result is 1.                                                        *)
(***************************************************************************)
\* the rule applied to the result: the rule applied to the column, over the
\* square of the divisor; nothing when the result is nan
IntegratedSquaredModulus(psi, grid) ==
    IF ~psi.finite THEN NoFrac
    ELSE Frac(NormSquared(psi, grid).num * psi.divisor_squared.den,
              NormSquared(psi, grid).den * psi.divisor_squared.num)

C19_EigenfunctionHasUnitNorm ==
    outcome.op = "get_eigenfunction" /\ Succeeded(outcome) =>
        /\ outcome.value.level = eigenvectors.array[outcome.arg[1] + 1].level
        /\ outcome.value.sign = eigenvectors.array[outcome.arg[1] + 1].sign
        /\ outcome.value.divisor_squared =
               IF dimension = 1
               THEN Trapz(eigenvectors.array[outcome.arg[1] + 1], nx, dx)
               ELSE SumTimesCell(eigenvectors.array[outcome.arg[1] + 1], nx * ny, dx, dy)
        /\ FracIs(IntegratedSquaredModulus(outcome.value, Grid), 1)

\* What the code does guarantee for C19: the result has unit integrated
\* squared modulus exactly when the number under the square root is positive,
\* that is on a 1D grid with x_max > x_min and on a 2D grid whose dx and dy
\* have one sign; otherwise the result is nan.
C19_UnitNormOnForwardGrid ==
    outcome.op = "get_eigenfunction" /\ Succeeded(outcome) =>
        /\ outcome.value.finite <=>
               (IF dimension = 1 THEN FracSign(dx) > 0
                ELSE FracSign(dx) * FracSign(dy) > 0)
        /\ outcome.value.finite => FracIs(IntegratedSquaredModulus(outcome.value, Grid), 1)

(***************************************************************************)
(* C20.  evolve_state over the single time point 0 returns the initial     *)
(* state itself up to the truncation of the eigenbasis: every phase factor *)
(* is 1 (angle 0), every component of the initial state on a computed      *)
(* eigenvector comes back with its amplitude, nothing else comes back, and *)
(* so the result is the initial state whenever that has no component       *)
(* outside the min(20, N) computed eigenvectors.                           *)
(***************************************************************************)
\* the levels of the eigenvectors a successful evolve_state computed
Retained(o) ==
    { o.value.eigenvectors.array[j].level : j \in DOMAIN o.value.eigenvectors.array }

C20_EvolveAtZeroReturnsInitialState ==
    outcome.op = "evolve_state" /\ Succeeded(outcome) /\ outcome.arg[3] = 1 =>
        /\ outcome.value.times = <<NoAngle>>
        /\ Len(outcome.value.states) = 1
        /\ outcome.value.states[1].terms =
               {t \in outcome.arg[1].terms : t.level \in Retained(outcome)}
        /\ (\A t \in outcome.arg[1].terms : t.level \in Retained(outcome)) =>
               outcome.value.states[1].terms = outcome.arg[1].terms

C20_Witness ==
    /\ outcome.op = "evolve_state"
    /\ Succeeded(outcome)
    /\ outcome.arg[3] = 1
    /\ outcome.value.eigenvectors.array[1].sign = -1
    /\ outcome.value.states[1].terms = {Term(0, 1, NoAngle)}
    /\ outcome.arg[1].terms = outcome.value.states[1].terms

(***************************************************************************)
(* C21.  For every requested time the norm of the state evolve_state       *)
(* returns equals the norm of the initial state it was handed.             *)
(*                                                                         *)
(* The eigenvectors are orthonormal, so the sum of |psi|^2 over the grid   *)
(* is the sum of the squared amplitudes of the terms; the grid measure is  *)
(* the same factor on both sides of every comparison.                      *)
(***************************************************************************)
RECURSIVE SumSquares(_)
SumSquares(terms) ==
    IF terms = {} THEN 0
    ELSE LET t == CHOOSE u \in terms : TRUE
         IN  t.amp * t.amp + SumSquares(terms \ {t})

\* np.sum(np.abs(psi)**2), up to the grid measure
NormSquaredOf(state) == SumSquares(state.terms)

\* the part of a state on the eigenvectors a successful evolve_state computed
RetainedPart(state, o) ==
    [state EXCEPT !.terms = {t \in state.terms : t.level \in Retained(o)}]

\* the statement of the claim: the norm of the initial state at every time
C21_EvolvePreservesNorm ==
    outcome.op = "evolve_state" /\ Succeeded(outcome) =>
        \A i \in DOMAIN outcome.value.states :
            NormSquaredOf(outcome.value.states[i]) = NormSquaredOf(outcome.arg[1])

\* C21, as the code has it: at every requested time the returned state has
\* the norm of the projection of the initial state on the min(20, N)
\* eigenvectors of the internal solve; that is the norm of the initial state
\* exactly when the initial state has nothing outside them, and less otherwise.
C21_EvolveKeepsNormOfRetainedPart ==
    outcome.op = "evolve_state" /\ Succeeded(outcome) =>
        \A i \in DOMAIN outcome.value.states :
            /\ NormSquaredOf(outcome.value.states[i]) =
                   NormSquaredOf(RetainedPart(outcome.arg[1], outcome))
            /\ NormSquaredOf(outcome.value.states[i]) <= NormSquaredOf(outcome.arg[1])
            /\ (NormSquaredOf(outcome.value.states[i]) = NormSquaredOf(outcome.arg[1]))
                   <=> (\A t \in outcome.arg[1].terms : t.level \in Retained(outcome))

C21_Witness ==
    /\ outcome.op = "evolve_state"
    /\ Succeeded(outcome)
    /\ outcome.arg[3] = 2
    /\ NormSquaredOf(outcome.arg[1]) = 25
    /\ NormSquaredOf(outcome.value.states[2]) = 9
    /\ \E t \in outcome.value.states[2].terms : t.angle # NoAngle

(***************************************************************************)
(* C22.  After construction no facade operation (solve, get_eigenfunction, *)
(* get_probability_density, evolve_state), succeeding or failing, changes  *)
(* the grid, the step sizes, the potential values, the Laplacian or the    *)
(* Hamiltonian (nor hbar, mass, boundary); the potential function has been *)
(* invoked exactly once when the constructor returns and is never invoked  *)
(* again.                                                                  *)
(***************************************************************************)
C22_FacadeOperationsKeepTheOperators ==
    [][ /\ outcome'.op \in FacadeOps =>
              /\ UNCHANGED facade
              /\ potential_calls' = 1
        /\ outcome'.op \in ConstructOps /\ Succeeded(outcome') =>
              potential_calls' = 1 ]_vars

C22_Witness ==
    /\ outcome.op = "evolve_state"
    /\ Succeeded(outcome)
    /\ Solved
    /\ dimension = 2
    /\ potential_calls = 1
    /\ potential_values = potential_2d("ramp", nx, ny)
    /\ hamiltonian.shape = nx * ny

\* a facade operation that failed after the construction
C22_WitnessFailure ==
    /\ outcome.op \in FacadeOps
    /\ Failed(outcome)
    /\ potential_calls = 1

(***************************************************************************)
(* C23.  A returning evolve_state(initial_state, t_max, n_steps) hands     *)
(* back exactly n_steps time points, with one state for each, uniformly    *)
(* spaced over the closed interval [0, t_max]: for n_steps >= 2 the first  *)
(* is 0, the last is t_max and consecutive points differ by                *)
(* t_max/(n_steps - 1); for n_steps = 1 the only point is 0.               *)
(***************************************************************************)
\* a/b = c/d for fractions with non-zero denominators
FracEq(f, g) == f.num * g.den = g.num * f.den

\* f - g
FracMinus(f, g) == Frac(f.num * g.den - g.num * f.den, f.den * g.den)

C23_TimePointsAreUniformOnClosedInterval ==
    outcome.op = "evolve_state" /\ Succeeded(outcome) =>
        LET times == outcome.value.times
            t_max == outcome.arg[2]
            n_steps == outcome.arg[3]
        IN  /\ Len(times) = n_steps
            /\ Len(outcome.value.states) = n_steps
            /\ \A i \in DOMAIN times : times[i].den # 0
            /\ n_steps >= 1 => FracIs(times[1], 0)
            /\ n_steps >= 2 =>
                   /\ FracIs(times[n_steps], t_max)
                   /\ \A i \in 1 .. (n_steps - 1) :
                          FracEq(FracMinus(times[i + 1], times[i]),
                                 Frac(t_max, n_steps - 1))

C23_Witness ==
    /\ outcome.op = "evolve_state"
    /\ Succeeded(outcome)
    /\ outcome.arg[2] = 3
    /\ outcome.arg[3] = 2
    /\ outcome.value.times = <<Frac(0, 1), Frac(3, 1)>>
    /\ Len(outcome.value.states) = 2

(***************************************************************************)
(* C24.  evolve_state never renormalizes the state it is given: the call   *)
(* with the initial state scaled by a constant c returns, at every time    *)
(* point, c times the state the call with the unscaled initial state       *)
(* returned (whatever sign the library gives the eigenvectors), so the     *)
(* squared norm of the trajectory scales by c*c with that of the initial   *)
(* state.                                                                  *)
(***************************************************************************)
\* the constants c tried
Scalings == {-1, 0, 2}

\* c * state
ScaledBy(c, state) ==
    [state EXCEPT !.terms = { Term(t.level, c * t.amp, t.angle) :
                                t \in {u \in state.terms : c * u.amp # 0} }]

C24_EvolveIsLinearInTheInitialState ==
    outcome.op = "evolve_state" /\ Succeeded(outcome) =>
        \A c \in Scalings, lib \in {l \in LibBehaviours : l.converges} :
            LET r == evolve_state(ScaledBy(c, outcome.arg[1]), outcome.arg[2],
                                  outcome.arg[3], hamiltonian, hbar, Grid, lib)
            IN  /\ ~Failed(r)
                /\ r.value.times = outcome.value.times
                /\ \A i \in DOMAIN outcome.value.states :
                       /\ r.value.states[i] = ScaledBy(c, outcome.value.states[i])
                       /\ NormSquaredOf(r.value.states[i]) =
                              c * c * NormSquaredOf(outcome.value.states[i])

C24_Witness ==
    /\ outcome.op = "evolve_state"
    /\ Succeeded(outcome)
    /\ outcome.arg[3] = 2
    /\ NormSquaredOf(outcome.arg[1]) = 25
    /\ LET r == evolve_state(ScaledBy(2, outcome.arg[1]), outcome.arg[2], outcome.arg[3],
                             hamiltonian, hbar, Grid,
                             [converges |-> TRUE, order |-> "asc", sign |-> 1])
       IN  /\ ~Failed(r)
           /\ NormSquaredOf(outcome.value.states[2]) = 9
           /\ NormSquaredOf(r.value.states[2]) = 36

(***************************************************************************)
(* C25.  Every 2D solver created by an entry point (the command-line       *)
(* launcher, the web UI) has nx <= 100 and ny <= 100.                      *)
(***************************************************************************)
EntryOps == {"main", "streamlit_app"}

\* the last call was an entry point that created a 2D solver
Created2D(op) ==
    outcome.op = op /\ Succeeded(outcome) /\ outcome.value.dimension = 2

\* the statement of the claim
C25_EntryPointGridsAtMostHundred ==
    \A op \in EntryOps :
        Created2D(op) => outcome.value.nx <= 100 /\ outcome.value.ny <= 100

\* C25, as the code has it: a 2D solver of the launcher has
\* nx = ny = min(n_points, 100), at most 100; a 2D solver of the web UI has
\* the slider values, each between 50 and 200, and 200 by 200 is created.
C25_LauncherCapsAtHundredWebUiAtTwoHundred ==
    /\ Created2D("main") =>
           /\ outcome.value.nx = Min(outcome.arg[3], 100)
           /\ outcome.value.ny = outcome.value.nx
           /\ outcome.value.nx <= 100
    /\ Created2D("streamlit_app") =>
           /\ outcome.value.nx = outcome.arg[3]
           /\ outcome.value.ny = outcome.arg[4]
           /\ outcome.value.nx \in 50 .. 200
           /\ outcome.value.ny \in 50 .. 200

C25_Witness ==
    /\ Created2D("streamlit_app")
    /\ outcome.value.nx = 200
    /\ outcome.value.ny = 200

\* the launcher asked for more points than the cap
C25_WitnessLauncher ==
    /\ Created2D("main")
    /\ outcome.arg[3] = 1000
    /\ outcome.value.nx = 100
    /\ outcome.value.ny = 100

(***************************************************************************)
(* C30.  For every dimension/potential combination an entry point offers,  *)
(* the construction call it builds succeeds: the potential is known for    *)
(* the dimension, every key of the parameter dictionary is a parameter of  *)
(* the selected potential function, and no key is captured by or collides  *)
(* with the constructor's own hbar, mass or boundary.                      *)
(***************************************************************************)
C30_OfferedCombinationsConstruct ==
    outcome.op \in EntryOps =>
        /\ Succeeded(outcome)
        /\ outcome.value.captured = {}

\* what holds: a combination the web UI offers fails only for the Harmonic
\* Oscillator, in both dimensions, with the TypeError of a keyword given
\* twice; the launcher fails with UnknownPotential exactly for circular in 1D
\* and for barrier and morse in 2D, with TypeError exactly for infinite_well
\* and harmonic in 2D, and binds mass to the constructor for harmonic in 1D.
C30_FailingCombinations ==
    /\ outcome.op = "streamlit_app" =>
           /\ Failed(outcome) <=> outcome.arg[2] = "Harmonic Oscillator"
           /\ Failed(outcome) => outcome.err = TypeError
           /\ Succeeded(outcome) => outcome.value.captured = {}
    /\ outcome.op = "main" =>
           /\ outcome.err = UnknownPotential <=>
                  <<outcome.arg[1], outcome.arg[2]>> \in
                      {<<1, "circular">>, <<2, "barrier">>, <<2, "morse">>}
           /\ outcome.err = TypeError <=>
                  <<outcome.arg[1], outcome.arg[2]>> \in
                      {<<2, "infinite_well">>, <<2, "harmonic">>}
           /\ Succeeded(outcome) =>
                  (outcome.value.captured = {"mass"} <=> outcome.arg[2] = "harmonic")
                  /\ (outcome.value.captured # {"mass"} => outcome.value.captured = {})

(***************************************************************************)
(* C26.  The kinetic term built by construct_hamiltonian is the            *)
(* discretisation of -hbar^2/(2m) times the central second difference      *)
(* (psi[i-1] - 2*psi[i] + psi[i+1])/dx^2: its diagonal entries are         *)
(* +hbar^2/(m*dx^2) and its nearest-neighbour entries -hbar^2/(2*m*dx^2),  *)
(* so with a zero potential every diagonal entry of the Hamiltonian is     *)
(* positive.                                                               *)
(*                                                                         *)
(* An entry [x, y, v] of a Hamiltonian stands for kin*(x/dx^2 + y/dy^2) +  *)
(* v with kin = hbar^2/(2m): the claim's diagonal is x = 2, its nearest    *)
(* neighbours are x = -1.                                                  *)
(***************************************************************************)
\* the sign of the kinetic part kin*(x/dx^2 + y/dy^2) of an entry whose x and y
\* do not have opposite signs (dx^2 and dy^2 are positive)
KineticSign(matrix, p) ==
    LET e == HEntry(matrix, p)
    IN  FracSign(matrix.kin) *
        (IF e.x >= 0 /\ e.y >= 0 THEN (IF e.x + e.y > 0 THEN 1 ELSE 0)
         ELSE IF e.x <= 0 /\ e.y <= 0 THEN -1
         ELSE 0)

\* the Hamiltonian of a 1D Laplacian just built from an all-zero potential
FreeParticle1D ==
    /\ Built("construct_hamiltonian")
    /\ outcome.arg[1].scale_y = NoFrac
    /\ outcome.arg[2] = ZeroPotential(outcome.arg[1].shape)

\* the statement of the claim
C26_KineticDiagonalIsPositive ==
    FreeParticle1D =>
        \A p \in Positions(outcome.arg[1].shape) :
            /\ p[1] = p[2] =>
                   /\ HEntry(outcome.value.operator, p).x = 2
                   /\ KineticSign(outcome.value.operator, p) = 1
            /\ Abs(p[1] - p[2]) = 1 =>
                   /\ HEntry(outcome.value.operator, p).x = -1
                   /\ KineticSign(outcome.value.operator, p) = -1

\* what the code builds: the opposite sign on every entry, -hbar^2/(m*dx^2)
\* on the diagonal and +hbar^2/(2*m*dx^2) beside it
C26_KineticDiagonalIsNegative ==
    FreeParticle1D =>
        \A p \in Positions(outcome.arg[1].shape) :
            /\ p[1] = p[2] =>
                   /\ HEntry(outcome.value.operator, p).x = -2
                   /\ KineticSign(outcome.value.operator, p) = -1
            /\ Abs(p[1] - p[2]) = 1 =>
                   /\ HEntry(outcome.value.operator, p).x = 1
                   /\ KineticSign(outcome.value.operator, p) = 1

\* a free-particle Hamiltonian with hbar = 2, mass = 3 has been built
C26_Reached ==
    /\ FreeParticle1D
    /\ outcome.arg[3] = 2
    /\ outcome.arg[4] = 3
    /\ outcome.value.operator.kin = Frac(4, 6)

(***************************************************************************)
(* C27.  get_eigenfunction(n) and get_probability_density(n) are pure      *)
(* queries: a call leaves the cached eigenvalues and eigenvectors as they  *)
(* were (the cached column keeps its raw scale), it computes the           *)
(* normalization from the cached column on every call,                     *)
(* get_probability_density(n) is the squared modulus of what               *)
(* get_eigenfunction(n) returns, and the same call made again returns (or  *)
(* raises) the same.                                                       *)
(***************************************************************************)
\* what the facade in the state after the step answers to a query
Again(op, n) ==
    IF op = "get_eigenfunction" THEN get_eigenfunction(eigenvectors', n, Grid')
    ELSE get_probability_density(eigenvectors', n, Grid')

C27_QueriesArePure ==
    [][ outcome'.op \in GetOps =>
          LET n == outcome'.arg[1]
          IN  /\ cache' = cache
              /\ UNCHANGED facade
              /\ Again(outcome'.op, n).err = outcome'.err
              /\ Succeeded(outcome') =>
                    /\ Again(outcome'.op, n).value = outcome'.value
                    /\ outcome'.value.divisor_squared =
                           NormSquared(eigenvectors.array[n + 1], Grid)
                    /\ outcome'.op = "get_probability_density" =>
                           outcome'.value =
                               AbsSquared(get_eigenfunction(eigenvectors, n, Grid).value)
                    /\ outcome'.op = "get_eigenfunction" =>
                           /\ outcome'.value.level = eigenvectors'.array[n + 1].level
                           /\ outcome'.value.sign = eigenvectors'.array[n + 1].sign ]_vars

C27_Witness ==
    /\ outcome.op = "get_probability_density"
    /\ Succeeded(outcome)
    /\ outcome.value.kind = "density"
    /\ outcome.value.sign = 1
    /\ eigenvectors.array[outcome.arg[1] + 1].sign = -1
    /\ outcome.value.divisor_squared # Frac(1, 1)
    /\ outcome.value.finite

(***************************************************************************)
(* C28.  The 2D facade uses one flat-index convention, row-major with      *)
(* index = j*nx + i for row j of ny and column i of nx, also when nx       *)
(* differs from ny: row j*nx + i of the Hamiltonian carries the potential  *)
(* value of grid point (j, i) on its diagonal, the x-couplings to the      *)
(* points (j, i') and the y-couplings to the points (j', i);               *)
(* get_eigenfunction returns arrays of shape (ny, nx); evolve_state        *)
(* returns states of shape (ny, nx); and reshaping a flattened array of    *)
(* that shape gives the array back.                                        *)
(***************************************************************************)
\* ndarray.reshape(n_y, n_x) of a flat array (C order)
Reshape(flat, n_y, n_x) ==
    [j \in 1 .. n_y |-> [i \in 1 .. n_x |-> flat[(j - 1) * n_x + i]]]

\* row j*nx + i of the matrix belongs to grid point (j, i): lap_x and lap_y are
\* the 1D Laplacians along x and y, values the rows of potential values
RowsFollowGrid(matrix, lap_x, lap_y, values) ==
    \A i, ii \in Index(lap_x.shape), j, jj \in Index(lap_y.shape) :
        HEntry(matrix, <<j * lap_x.shape + i, jj * lap_x.shape + ii>>) =
            [x |-> IF j = jj THEN -Entry(lap_x, i, ii).x ELSE 0,
             y |-> IF i = ii THEN -Entry(lap_y, j, jj).x ELSE 0,
             v |-> IF i = ii /\ j = jj THEN values[j + 1][i + 1] ELSE 0]

C28_OneFlatIndexConvention ==
    /\ Instantiated("Schrodinger2D") =>
           /\ Len(potential_values) = ny
           /\ \A j \in 1 .. ny : Len(potential_values[j]) = nx
           /\ Reshape(Flatten(potential_values, nx), ny, nx) = potential_values
           /\ \A lap_x \in {construct_laplacian_1d(nx, dx, boundary)},
                 lap_y \in {construct_laplacian_1d(ny, dy, boundary)} :
                  RowsFollowGrid(hamiltonian, lap_x, lap_y, potential_values)
    /\ dimension = 2 /\ outcome.op = "get_eigenfunction" /\ Succeeded(outcome) =>
           outcome.value.shape = <<ny, nx>>
    /\ /\ dimension = 2
       /\ outcome.op = "evolve_state"
       /\ Succeeded(outcome)
       /\ outcome.arg[1].shape = <<ny, nx>>
       => /\ [Flat(outcome.arg[1]) EXCEPT !.shape = <<ny, nx>>] = outcome.arg[1]
          /\ Flat(outcome.arg[1]).shape = <<hamiltonian.shape>>
          /\ \A k \in DOMAIN outcome.value.states :
                 outcome.value.states[k].shape = outcome.arg[1].shape

\* a grid of 7 columns and 3 rows: the point in row 1, column 3 has flat
\* index 10, its y-neighbours 3 and 17, its x-neighbours 9 and 11
C28_Witness ==
    /\ Instantiated("Schrodinger2D")
    /\ nx = 7
    /\ ny = 3
    /\ potential_values[2][4] = 13
    /\ HEntry(hamiltonian, <<10, 10>>).v = 13
    /\ HEntry(hamiltonian, <<10, 3>>).y # 0
    /\ HEntry(hamiltonian, <<10, 17>>).y # 0
    /\ HEntry(hamiltonian, <<10, 9>>).x # 0
    /\ HEntry(hamiltonian, <<10, 11>>).x # 0
    /\ HEntry(hamiltonian, <<10, 12>>) = HZero

\* an evolution on a grid with nx # ny has returned
C28_WitnessEvolve ==
    /\ dimension = 2
    /\ nx # ny
    /\ outcome.op = "evolve_state"
    /\ Succeeded(outcome)
    /\ outcome.arg[3] = 2
    /\ outcome.arg[1].shape = <<ny, nx>>
    /\ outcome.value.states[1].shape = <<ny, nx>>

(***************************************************************************)
(* C29.  In every facade state the cached eigenvalues and eigenvectors are *)
(* both absent or both present; when present they come from one and the    *)
(* same successful solve: there are as many columns as eigenvalues, the    *)
(* cache changes by nothing but a successful solve, and such a solve       *)
(* leaves n_eigenstates eigenvalues, each beside its own eigenvector, in   *)
(* the cache and returns the cached pair.                                  *)
(***************************************************************************)
\* the two halves of the cache belong together
CacheIsOnePair(values, vectors) ==
    /\ Present(values) <=> Present(vectors)
    /\ (values = None) <=> (vectors = None)
    /\ Present(values) => Len(values.array) = Len(vectors.array)

C29_CacheIsThePairOfOneSolve ==
    [][ /\ constructed' => CacheIsOnePair(eigenvalues', eigenvectors')
        /\ constructed /\ cache' # cache =>
               outcome'.op = "solve" /\ Succeeded(outcome')
        /\ outcome'.op = "solve" /\ Succeeded(outcome') =>
               /\ Present(eigenvalues')
               /\ Len(eigenvalues'.array) = outcome'.arg[1]
               /\ Len(eigenvectors'.array) = outcome'.arg[1]
               /\ \A j \in DOMAIN eigenvalues'.array :
                      eigenvalues'.array[j] = Energy(eigenvectors'.array[j].level)
               /\ outcome'.value.eigenvalues = eigenvalues'
               /\ outcome'.value.eigenvectors = eigenvectors'
               /\ Pairs(eigenvalues'.array, eigenvectors'.array) =
                      Pairs(outcome'.eigsh_output.w, outcome'.eigsh_output.v)
      ]_vars

\* a failed solve after a successful one for N - 1 states: the pair is kept
C29_Witness ==
    /\ outcome.op = "solve"
    /\ Failed(outcome)
    /\ Solved
    /\ Len(eigenvalues.array) = nx * ny - 1
    /\ Len(eigenvectors.array) = nx * ny - 1
    /\ eigenvectors.array[1].sign = -1

====
